---- MODULE Spec2Model ----
(***************************************************************************)
(* Verification model of the financial ETL pipeline core:                  *)
(*   - utils/rate_limiter.py   RateLimiter (per-source sliding window)     *)
(*   - extract/base_extractor.py  BaseExtractor._make_request (gateway)    *)
(*   - transform/validator.py  ValidationSummary (counters and verdict)    *)
(*     and DataValidator.validate_dataframe (SpecDV, SpecVC)               *)
(*   - transform/standardizer.py  DataStandardizer (SpecST, SpecFD)        *)
(*   - load/supabase_loader.py  SupabaseLoader (SpecLD, SpecLDResponse)    *)
(* Each component has its own specification (SpecRL and SpecRLMulti,       *)
(* SpecGW and SpecGWFair, SpecVS) over the shared variable list; a         *)
(* specification leaves the variables of the other components unchanged.   *)
(***************************************************************************)
EXTENDS Integers, Sequences, FiniteSets, TLC

VARIABLES
    now,        \* time.time(), in whole seconds
    configs,    \* RateLimiter.configs : source -> RateLimitConfig
    requests,   \* RateLimiter.requests: source -> list of timestamps
    locks,      \* RateLimiter.locks   : source -> identity of its Lock object
    held,       \* the Lock objects that are currently acquired
    pc,         \* thread -> position inside the RateLimiter method it runs
    src,        \* thread -> source_name argument of the running call
    cfg,        \* thread -> local `config` of wait_if_needed
    ctime,      \* thread -> local `current_time` of wait_if_needed
    wake,       \* thread -> time at which time.sleep(wait_time) may return
    myLock,     \* thread -> Lock object the thread holds (or NoLock)
    completed,  \* source -> completions of the acquires since the source
                \*           was last registered or reset (history)
    last,       \* observation of the most recently returned wait_if_needed
    calls,      \* the threads inside wait_if_needed, in call order (history)
    gwPc,           \* position of the one _make_request call of the gateway
    gwMaxRetries,   \* settings.max_retries
    gwAttempt,      \* tenacity's attempt_number
    gwOutcome,      \* response or exception of the latest attempt
    gwRaised,       \* exception that _make_request raised to its caller
    gwTrace,        \* acquire / http / backoff events of the call (history)
    total_checks, passed_checks, failed_checks, warnings, errors,
    critical_issues, results,   \* the fields of one ValidationSummary
    verdict,        \* threshold and value of the latest is_valid call
    dvPc,           \* position of the one validate_dataframe call
    dvDf,           \* its df argument
    dvType,         \* its data_type argument
    dvLevel,        \* its validation_level argument
    dvConfig,       \* the thresholds the DataValidator was constructed with
    dvOut,          \* the DataFrame it returned
    stPc,           \* how many standardize_dataframe calls have returned
    stType,         \* the data_type argument of the calls
    stIn,           \* the df argument of the first call
    stOut,          \* the DataFrame the first call returned
    stOut2,         \* what standardize_dataframe(stOut) returned
    ldPc,           \* position of the load_from_dataframe call
    ldBatchSize,    \* settings.batch_size
    ldClass,        \* the data_model_class argument
    ldDf,           \* the df argument (its rows)
    ldRun,          \* the number of the load_from_dataframe call
    ldRecords,      \* local `records`, the `data` of upsert_data
    ldI,            \* loop variable i of upsert_data, counted from 1
    ldResults,      \* local `results` of upsert_data
    ldMetadata,     \* local `metadata`, a PipelineMetadata object
    ldStore,        \* the rows of the data table in the database
    ldMetaTable,    \* the rows of the table pipeline_metadata
    ldHistory,      \* how each load_from_dataframe call ended (history)
    ldChunks        \* the upserts attempted by the running call (history)

rlVars == <<now, configs, requests, locks, held, pc, src, cfg, ctime, wake,
            myLock, completed, last, calls>>
gwVars == <<gwPc, gwMaxRetries, gwAttempt, gwOutcome, gwRaised, gwTrace>>
vsVars == <<total_checks, passed_checks, failed_checks, warnings, errors,
            critical_issues, results, verdict>>
dvVars == <<dvPc, dvDf, dvType, dvLevel, dvConfig, dvOut>>
stVars == <<stPc, stType, stIn, stOut, stOut2>>
ldVars == <<ldPc, ldBatchSize, ldClass, ldDf, ldRun, ldRecords, ldI, ldResults,
            ldMetadata, ldStore, ldMetaTable, ldHistory, ldChunks>>
tlVars == <<dvVars, stVars, ldVars>>
vars == <<rlVars, gwVars, vsVars, tlVars>>

----------------------------------------------------------------------------
(* Bounds of the model *)

MaxTime == 3        \* horizon of the clock in SpecRL
MaxCalls == 3       \* acquires of one source recorded in its history
MaxGen == 2         \* registrations of one source explored

Sources == {"A", "B"}
OneSource == {"A"}
Threads == {"t1", "t2"}

\* The RateLimitConfig values explored: (max_requests, time_window, retry_delay)
TightConfig == [max_requests |-> 1, time_window |-> 2, retry_delay |-> 1]
WideConfig == [max_requests |-> 2, time_window |-> 2, retry_delay |-> 2]
ConfigSet == {TightConfig, WideConfig}

NoLock == <<"none", 0>>
NoCfg == [max_requests |-> -1, time_window |-> -1, retry_delay |-> -1]
NoSource == "none"
NoOutcome == [exc |-> "none", status |-> 0]
NoVerdict == [num |-> -1, den |-> 1, valid |-> FALSE]
NoCall == [source |-> NoSource, waited |-> FALSE, registered |-> FALSE]
NoDf == [columns |-> {}, tsdtype |-> "none", rows |-> <<>>]
NoConfig == [missing_threshold |-> <<0, 1>>, anomaly_threshold |-> <<0, 1>>]
NoFrame == [columns |-> {}, rows |-> <<>>]
None == "None"
NoResults == [total |-> 0, inserted |-> 0, updated |-> 0, failed |-> 0,
              errors |-> <<>>]
NoMetadata == [run_id |-> 0, status |-> None, start_time |-> None,
               end_time |-> None, ended_at |-> None, records_processed |-> 0,
               records_failed |-> 0, error_message |-> None]

----------------------------------------------------------------------------
(* Helpers *)

Range(f) == { f[i] : i \in DOMAIN f }

\* dict[key] = value
Put(d, k, v) == [x \in (DOMAIN d) \cup {k} |-> IF x = k THEN v ELSE d[x]]

EmptyDict == [x \in {} |-> 0]

\* the history with the completion e of an acquire of source s added; only
\* the sources in the domain of the history are recorded
Log(history, s, e) ==
    IF s \in DOMAIN history THEN [history EXCEPT ![s] = Append(@, e)]
                             ELSE history

\* the history of source s starts again
Forget(history, s) ==
    IF s \in DOMAIN history THEN [history EXCEPT ![s] = <<>>] ELSE history

\* [req_time for req_time in window if req_time > window_start]
RECURSIVE Prune(_, _)
Prune(window, window_start) ==
    IF window = <<>> THEN <<>>
    ELSE IF Head(window) > window_start
         THEN <<Head(window)>> \o Prune(Tail(window), window_start)
         ELSE Prune(Tail(window), window_start)

\* faulty variant of Saturated: the limit is tested with > instead of >=
Saturated_strict(window, config) == Len(window) > config.max_requests

\* len(self.requests[source_name]) >= config.max_requests
Saturated(window, config) == Len(window) >= config.max_requests

\* faulty variant of LockFree: one lock for all sources
LockFree_global(s) == held = {}

\* `with self.locks[source_name]` can be entered: that Lock object is free
LockFree(s) == <<s, locks[s]>> \notin held

----------------------------------------------------------------------------
(* RateLimiter *)

InitRL ==
    /\ now = 0
    /\ configs = EmptyDict
    /\ requests = EmptyDict
    /\ locks = EmptyDict
    /\ held = {}
    /\ pc = [t \in Threads |-> "idle"]
    /\ src = [t \in Threads |-> NoSource]
    /\ cfg = [t \in Threads |-> NoCfg]
    /\ ctime = [t \in Threads |-> 0]
    /\ wake = [t \in Threads |-> 0]
    /\ myLock = [t \in Threads |-> NoLock]
    /\ completed = [s \in Sources |-> <<>>]
    /\ last = NoCall
    /\ calls = <<>>

\* the call of thread t has ended
Leave(order, t) == SelectSeq(order, LAMBDA u : u # t)

\* the locals of a thread whose call has returned
Return(t) ==
    /\ pc' = [pc EXCEPT ![t] = "idle"]
    /\ src' = [src EXCEPT ![t] = NoSource]
    /\ cfg' = [cfg EXCEPT ![t] = NoCfg]
    /\ ctime' = [ctime EXCEPT ![t] = 0]
    /\ wake' = [wake EXCEPT ![t] = 0]

\* register_source, line 27: self.configs[source_name] = config
register_source_configs(t, s, c) ==
    /\ pc[t] = "idle"
    /\ (s \in DOMAIN locks) => locks[s] < MaxGen
    /\ configs' = Put(configs, s, c)
    /\ completed' = Forget(completed, s)
    /\ pc' = [pc EXCEPT ![t] = "r_requests"]
    /\ src' = [src EXCEPT ![t] = s]
    /\ UNCHANGED <<now, requests, locks, held, cfg, ctime, wake, myLock, last>>
    /\ UNCHANGED calls
    /\ UNCHANGED <<gwVars, vsVars, tlVars>>

\* register_source, line 28: self.requests[source_name] = []
register_source_requests(t) ==
    /\ pc[t] = "r_requests"
    /\ requests' = Put(requests, src[t], <<>>)
    /\ completed' = Forget(completed, src[t])
    /\ pc' = [pc EXCEPT ![t] = "r_locks"]
    /\ UNCHANGED <<now, configs, locks, held, src, cfg, ctime, wake, myLock,
                   last>>
    /\ UNCHANGED calls
    /\ UNCHANGED <<gwVars, vsVars, tlVars>>

\* register_source, line 29: self.locks[source_name] = Lock()
register_source_locks(t) ==
    /\ pc[t] = "r_locks"
    /\ locks' = Put(locks, src[t],
                    IF src[t] \in DOMAIN locks THEN locks[src[t]] + 1 ELSE 1)
    /\ completed' = Forget(completed, src[t])
    /\ Return(t)
    /\ UNCHANGED <<now, configs, requests, held, myLock, last>>
    /\ UNCHANGED calls
    /\ UNCHANGED <<gwVars, vsVars, tlVars>>

\* faulty variant of wait_if_needed_unregistered: the call records itself
wait_if_needed_unregistered_touch(t, s) ==
    /\ pc[t] = "idle"
    /\ s \notin DOMAIN configs
    /\ requests' = Put(requests, s, <<now>>)
    /\ last' = [source |-> s, waited |-> FALSE, registered |-> FALSE]
    /\ UNCHANGED <<now, configs, locks, held, pc, src, cfg, ctime, wake,
                   myLock, completed>>
    /\ UNCHANGED calls
    /\ UNCHANGED <<gwVars, vsVars, tlVars>>

\* wait_if_needed, lines 36-38: no config for the source, return False
wait_if_needed_unregistered(t, s) ==
    /\ pc[t] = "idle"
    /\ s \notin DOMAIN configs
    /\ last' = [source |-> s, waited |-> FALSE, registered |-> FALSE]
    /\ UNCHANGED <<now, configs, requests, locks, held, pc, src, cfg, ctime,
                   wake, myLock, completed>>
    /\ UNCHANGED calls
    /\ UNCHANGED <<gwVars, vsVars, tlVars>>

\* wait_if_needed, line 40: config = self.configs[source_name]
wait_if_needed_config(t, s) ==
    /\ pc[t] = "idle"
    /\ (s \in DOMAIN completed) => Len(completed[s]) < MaxCalls
    /\ s \in DOMAIN configs
    /\ src' = [src EXCEPT ![t] = s]
    /\ cfg' = [cfg EXCEPT ![t] = configs[s]]
    /\ pc' = [pc EXCEPT ![t] = "a_lock"]
    /\ UNCHANGED <<now, configs, requests, locks, held, ctime, wake, myLock,
                   completed, last>>
    /\ calls' = Append(calls, t)
    /\ UNCHANGED <<gwVars, vsVars, tlVars>>

\* wait_if_needed, line 42: self.locks[source_name] raises KeyError when the
\* registration of the source has not reached line 29 yet
wait_if_needed_keyerror(t) ==
    /\ pc[t] = "a_lock"
    /\ src[t] \notin DOMAIN locks
    /\ Return(t)
    /\ UNCHANGED <<now, configs, requests, locks, held, myLock, completed,
                   last>>
    /\ calls' = Leave(calls, t)
    /\ UNCHANGED <<gwVars, vsVars, tlVars>>

\* wait_if_needed, lines 42-50: with self.locks[source_name]; read the clock
\* and drop the requests that left the window
wait_if_needed_lock(t) ==
    /\ pc[t] = "a_lock"
    /\ src[t] \in DOMAIN locks
    /\ LockFree(src[t])
    /\ held' = held \cup {<<src[t], locks[src[t]]>>}
    /\ myLock' = [myLock EXCEPT ![t] = <<src[t], locks[src[t]]>>]
    /\ ctime' = [ctime EXCEPT ![t] = now]
    /\ requests' = Put(requests, src[t],
                       Prune(requests[src[t]], now - cfg[t].time_window))
    /\ pc' = [pc EXCEPT ![t] = "a_test"]
    /\ UNCHANGED <<now, configs, locks, src, cfg, wake, completed, last>>
    /\ UNCHANGED calls
    /\ UNCHANGED <<gwVars, vsVars, tlVars>>

\* wait_if_needed, lines 53-61: the limit is reached, time.sleep(wait_time)
wait_if_needed_sleep(t) ==
    /\ pc[t] = "a_test"
    /\ Saturated(requests[src[t]], cfg[t])
    /\ wake' = [wake EXCEPT ![t] = now + cfg[t].retry_delay]
    /\ pc' = [pc EXCEPT ![t] = "a_sleep"]
    /\ UNCHANGED <<now, configs, requests, locks, held, src, cfg, ctime,
                   myLock, completed, last>>
    /\ UNCHANGED calls
    /\ UNCHANGED <<gwVars, vsVars, tlVars>>

\* wait_if_needed, lines 62-63: reset after waiting, return True
wait_if_needed_wake(t) ==
    /\ pc[t] = "a_sleep"
    /\ now >= wake[t]
    /\ requests' = Put(requests, src[t], <<>>)
    /\ held' = held \ {myLock[t]}
    /\ myLock' = [myLock EXCEPT ![t] = NoLock]
    /\ completed' = Log(completed, src[t], [at |-> now, waited |-> TRUE])
    /\ last' = [source |-> src[t], waited |-> TRUE, registered |-> TRUE]
    /\ Return(t)
    /\ UNCHANGED <<now, configs, locks>>
    /\ calls' = Leave(calls, t)
    /\ UNCHANGED <<gwVars, vsVars, tlVars>>

\* wait_if_needed, lines 66-67: record this request, return False
wait_if_needed_record(t) ==
    /\ pc[t] = "a_test"
    /\ ~Saturated(requests[src[t]], cfg[t])
    /\ requests' = Put(requests, src[t], Append(requests[src[t]], ctime[t]))
    /\ held' = held \ {myLock[t]}
    /\ myLock' = [myLock EXCEPT ![t] = NoLock]
    /\ completed' = Log(completed, src[t], [at |-> now, waited |-> FALSE])
    /\ last' = [source |-> src[t], waited |-> FALSE, registered |-> TRUE]
    /\ Return(t)
    /\ UNCHANGED <<now, configs, locks>>
    /\ calls' = Leave(calls, t)
    /\ UNCHANGED <<gwVars, vsVars, tlVars>>

\* reset, line 71: if source_name in self.requests
reset_check(t, s) ==
    /\ pc[t] = "idle"
    /\ s \in DOMAIN requests
    /\ src' = [src EXCEPT ![t] = s]
    /\ pc' = [pc EXCEPT ![t] = "x_lock"]
    /\ UNCHANGED <<now, configs, requests, locks, held, cfg, ctime, wake,
                   myLock, completed, last>>
    /\ UNCHANGED calls
    /\ UNCHANGED <<gwVars, vsVars, tlVars>>

\* reset, line 72: self.locks[source_name] raises KeyError before line 29
reset_keyerror(t) ==
    /\ pc[t] = "x_lock"
    /\ src[t] \notin DOMAIN locks
    /\ Return(t)
    /\ UNCHANGED <<now, configs, requests, locks, held, myLock, completed,
                   last>>
    /\ UNCHANGED calls
    /\ UNCHANGED <<gwVars, vsVars, tlVars>>

\* reset, line 72: with self.locks[source_name]
reset_lock(t) ==
    /\ pc[t] = "x_lock"
    /\ src[t] \in DOMAIN locks
    /\ LockFree(src[t])
    /\ held' = held \cup {<<src[t], locks[src[t]]>>}
    /\ myLock' = [myLock EXCEPT ![t] = <<src[t], locks[src[t]]>>]
    /\ pc' = [pc EXCEPT ![t] = "x_clear"]
    /\ UNCHANGED <<now, configs, requests, locks, src, cfg, ctime, wake,
                   completed, last>>
    /\ UNCHANGED calls
    /\ UNCHANGED <<gwVars, vsVars, tlVars>>

\* reset, line 73: self.requests[source_name] = []
reset_clear(t) ==
    /\ pc[t] = "x_clear"
    /\ requests' = Put(requests, src[t], <<>>)
    /\ completed' = Forget(completed, src[t])
    /\ held' = held \ {myLock[t]}
    /\ myLock' = [myLock EXCEPT ![t] = NoLock]
    /\ Return(t)
    /\ UNCHANGED <<now, configs, locks, last>>
    /\ UNCHANGED calls
    /\ UNCHANGED <<gwVars, vsVars, tlVars>>

\* the clock advances
Tick ==
    /\ now < MaxTime
    /\ now' = now + 1
    /\ UNCHANGED <<configs, requests, locks, held, pc, src, cfg, ctime, wake,
                   myLock, completed, last>>
    /\ UNCHANGED calls
    /\ UNCHANGED <<gwVars, vsVars, tlVars>>

\* one step of a thread that calls register_source on a source of S
RegisterStep(S) ==
    \/ \E t \in Threads, s \in S, c \in ConfigSet :
            register_source_configs(t, s, c)
    \/ \E t \in Threads : register_source_requests(t)
    \/ \E t \in Threads : register_source_locks(t)

\* one step of a thread that calls wait_if_needed on a source of S
AcquireStep(S) ==
    \/ \E t \in Threads, s \in S : wait_if_needed_unregistered(t, s)
    \/ \E t \in Threads, s \in S : wait_if_needed_config(t, s)
    \/ \E t \in Threads : wait_if_needed_keyerror(t)
    \/ \E t \in Threads : wait_if_needed_lock(t)
    \/ \E t \in Threads : wait_if_needed_sleep(t)
    \/ \E t \in Threads : wait_if_needed_wake(t)
    \/ \E t \in Threads : wait_if_needed_record(t)

\* one step of a thread that calls reset on a source of S
ResetStep(S) ==
    \/ \E t \in Threads, s \in S : reset_check(t, s)
    \/ \E t \in Threads : reset_keyerror(t)
    \/ \E t \in Threads : reset_lock(t)
    \/ \E t \in Threads : reset_clear(t)

\* threads registering, acquiring and resetting one source, from construction
NextRL ==
    \/ RegisterStep(OneSource)
    \/ AcquireStep(OneSource)
    \/ ResetStep(OneSource)
    \/ Tick

\* all sources registered once; threads acquire and reset any of them, and
\* no history is recorded
InitRLMulti ==
    /\ now = 0
    /\ configs \in [Sources -> ConfigSet]
    /\ requests = [s \in Sources |-> <<>>]
    /\ locks = [s \in Sources |-> 1]
    /\ held = {}
    /\ pc = [t \in Threads |-> "idle"]
    /\ src = [t \in Threads |-> NoSource]
    /\ cfg = [t \in Threads |-> NoCfg]
    /\ ctime = [t \in Threads |-> 0]
    /\ wake = [t \in Threads |-> 0]
    /\ myLock = [t \in Threads |-> NoLock]
    /\ completed = EmptyDict
    /\ last = NoCall
    /\ calls = <<>>

NextRLMulti ==
    \/ \E t \in Threads, s \in Sources : wait_if_needed_config(t, s)
    \/ \E t \in Threads : wait_if_needed_lock(t)
    \/ \E t \in Threads : wait_if_needed_sleep(t)
    \/ \E t \in Threads : wait_if_needed_wake(t)
    \/ \E t \in Threads : wait_if_needed_record(t)
    \/ \E t \in Threads, s \in Sources : reset_check(t, s)
    \/ \E t \in Threads : reset_lock(t)
    \/ \E t \in Threads : reset_clear(t)
    \/ Tick

\* the gateway is not running
IdleGW ==
    /\ gwPc = "off"
    /\ gwMaxRetries = 0
    /\ gwAttempt = 0
    /\ gwOutcome = NoOutcome
    /\ gwRaised = NoOutcome
    /\ gwTrace = <<>>

\* no ValidationSummary is in use
IdleVS ==
    /\ total_checks = 0
    /\ passed_checks = 0
    /\ failed_checks = 0
    /\ warnings = 0
    /\ errors = 0
    /\ critical_issues = 0
    /\ results = <<>>
    /\ verdict = NoVerdict

\* no validate_dataframe call is running
IdleDV ==
    /\ dvPc = "off"
    /\ dvDf = NoDf
    /\ dvType = "none"
    /\ dvLevel = "none"
    /\ dvConfig = NoConfig
    /\ dvOut = NoDf

\* no DataStandardizer is in use
IdleST ==
    /\ stPc = "off"
    /\ stType = "none"
    /\ stIn = NoFrame
    /\ stOut = NoFrame
    /\ stOut2 = NoFrame

\* no SupabaseLoader is in use
IdleLD ==
    /\ ldPc = "off"
    /\ ldBatchSize = 0
    /\ ldClass = None
    /\ ldDf = <<>>
    /\ ldRun = 0
    /\ ldRecords = <<>>
    /\ ldI = 0
    /\ ldResults = NoResults
    /\ ldMetadata = NoMetadata
    /\ ldStore = <<>>
    /\ ldMetaTable = <<>>
    /\ ldHistory = <<>>
    /\ ldChunks = <<>>

\* the transform and load stages are not running
IdleTL == IdleDV /\ IdleST /\ IdleLD

\* only the rate limiter runs
StartRL == InitRL /\ IdleGW /\ IdleVS /\ IdleTL

SpecRL == StartRL /\ [][NextRL]_vars

StartRLMulti == InitRLMulti /\ IdleGW /\ IdleVS /\ IdleTL

SpecRLMulti == StartRLMulti /\ [][NextRLMulti]_vars

----------------------------------------------------------------------------
(* Properties of the RateLimiter *)

\* the acquires of source s that completed in the window that ends with
\* the i-th completion
InWindow(s, i) ==
    { j \in 1..Len(completed[s]) :
        /\ completed[s][j].at > completed[s][i].at - configs[s].time_window
        /\ completed[s][j].at <= completed[s][i].at }

\* C1: for every registered source, at most max_requests acquires complete
\* within any sliding window of time_window seconds.
C1_SlidingWindowBound ==
    \A s \in (DOMAIN configs) \cap (DOMAIN completed) :
        \A i \in 1..Len(completed[s]) :
            Cardinality(InWindow(s, i)) <= configs[s].max_requests

\* C2: an acquire that finds fewer than max_requests requests in the window
\* returns "no wait" at once; one that finds the window saturated sleeps for
\* retry_delay seconds and then reports that a wait occurred.
C2_FirstNThenWait ==
    /\ [][\A t \in Threads :
            (pc[t] = "a_test" /\ pc'[t] # "a_test") =>
                IF Len(requests[src[t]]) < cfg[t].max_requests
                THEN /\ pc'[t] = "idle"
                     /\ now' = now
                     /\ last' = [source |-> src[t], waited |-> FALSE,
                                 registered |-> TRUE]
                ELSE /\ pc'[t] = "a_sleep"
                     /\ wake'[t] = now + cfg[t].retry_delay]_vars
    /\ [][\A t \in Threads :
            (pc[t] = "a_sleep" /\ pc'[t] # "a_sleep") =>
                /\ now >= wake[t]
                /\ last' = [source |-> src[t], waited |-> TRUE,
                            registered |-> TRUE]]_vars

\* C2 witness: from an empty window, max_requests acquires returned without
\* a wait and the next one returned after sleeping retry_delay seconds.
C2_Witness ==
    \E s \in (DOMAIN configs) \cap (DOMAIN completed) :
        LET n == configs[s].max_requests IN
        /\ Len(completed[s]) = n + 1
        /\ \A i \in 1..n : ~completed[s][i].waited
        /\ completed[s][n + 1].waited
        /\ completed[s][n + 1].at >= completed[s][n].at + configs[s].retry_delay
        /\ last = [source |-> s, waited |-> TRUE, registered |-> TRUE]

\* C3: when an acquire on a registered source returns, the window of the
\* source contains the timestamp of that request.
C3_ReturnedAcquireIsRecorded ==
    [][\A t \in Threads :
        (pc[t] \in {"a_test", "a_sleep"} /\ pc'[t] = "idle") =>
            \E i \in DOMAIN requests'[src[t]] :
                requests'[src[t]][i] = ctime[t]]_vars

\* C4: a thread that cannot enter the lock of its source is kept out by a
\* thread that works on the same source, never by one inside another source.
C4_IndependentSources ==
    \A t \in Threads :
        (pc[t] \in {"a_lock", "x_lock"} /\ ~LockFree(src[t])) =>
            \E u \in Threads \ {t} :
                src[u] = src[t] /\ myLock[u] # NoLock

\* C4 witness: one thread sleeps inside acquire of A while another thread is
\* inside the locked section of B.
C4_Witness ==
    \E t, u \in Threads :
        /\ pc[u] = "a_sleep" /\ src[u] = "A" /\ now < wake[u]
        /\ pc[t] = "a_test" /\ src[t] = "B" /\ myLock[t] # NoLock
        /\ ctime[t] > ctime[u]

\* C5: no thread is kept waiting for a lock by a thread that sleeps in
\* acquire.
C5_SleepBlocksOnlyCaller ==
    \A t \in Threads :
        pc[t] \in {"a_lock", "x_lock"} =>
            ~ \E u \in Threads \ {t} :
                /\ pc[u] = "a_sleep"
                /\ src[t] \in DOMAIN locks
                /\ myLock[u] = <<src[t], locks[src[t]]>>

\* C6: an acquire for a source without a config returns "no wait" without
\* sleeping and changes nothing of the rate-limit state.
C6_UnregisteredUnthrottled ==
    [][(last' # last /\ ~last'.registered) =>
        /\ last'.source \notin DOMAIN configs
        /\ ~last'.waited
        /\ UNCHANGED <<now, configs, requests, locks, held, pc, wake,
                       myLock, completed>>]_vars

\* C6 witness: an acquire on a source that has no config has returned.
C6_Witness ==
    /\ last.source \in Sources
    /\ ~last.registered
    /\ last.source \notin DOMAIN configs

----------------------------------------------------------------------------
(* Request gateway: BaseExtractor._make_request under tenacity's @retry *)

DefaultMaxRetries == 3      \* settings.max_retries
BackoffMultiplier == 1      \* wait_exponential(multiplier=1, ...)
BackoffMin == 4             \* wait_exponential(..., min=4, ...)
BackoffMax == 60            \* wait_exponential(..., max=60)

GwSource == "A"
GwConfigSet == { [max_requests |-> 1, time_window |-> 60, retry_delay |-> 60],
                 [max_requests |-> 2, time_window |-> 60, retry_delay |-> 5] }

StatusCodes == {200, 404, 429, 503}

\* what session.get / session.post can produce: a response with a status
\* code, or a network error, or a timeout
Responses ==
    [exc : {"none"}, status : StatusCodes]
        \cup [exc : {"ConnectionError", "Timeout"}, status : {0}]

\* response.raise_for_status(): HTTPError for a 4xx or 5xx status
raise_for_status(r) ==
    IF r.exc = "none" /\ 400 <= r.status /\ r.status < 600
    THEN [exc |-> "HTTPError", status |-> r.status]
    ELSE r

\* retry_if_exception_type((requests.RequestException,)); HTTPError,
\* ConnectionError and Timeout are subclasses of RequestException
retry_if_exception_type(e) ==
    e.exc \in {"HTTPError", "ConnectionError", "Timeout"}

\* faulty variant of stop_after_attempt: one attempt too many
stop_after_attempt_late(attempt_number, max_attempt_number) ==
    attempt_number > max_attempt_number

\* stop_after_attempt(settings.max_retries): attempt_number >= max_attempt_number
stop_after_attempt(attempt_number, max_attempt_number) ==
    attempt_number >= max_attempt_number

RECURSIVE Pow2(_)
Pow2(n) == IF n <= 0 THEN 1 ELSE 2 * Pow2(n - 1)

Min2(a, b) == IF a <= b THEN a ELSE b
Max2(a, b) == IF a >= b THEN a ELSE b

\* wait_exponential(multiplier=1, min=4, max=60), seconds slept after the
\* attempt numbered attempt_number
wait_exponential(attempt_number) ==
    Max2(Max2(0, BackoffMin),
         Min2(BackoffMultiplier * Pow2(attempt_number - 1), BackoffMax))

\* wait_if_needed run to its return by the only thread: the window it leaves
AcquireWindow(window, config, t) ==
    LET pruned == Prune(window, t - config.time_window) IN
    IF Saturated(pruned, config) THEN <<>> ELSE Append(pruned, t)

\* wait_if_needed run to its return by the only thread: the seconds it sleeps
AcquireSleep(window, config, t) ==
    IF Saturated(Prune(window, t - config.time_window), config)
    THEN config.retry_delay ELSE 0

GwEvent(ev, o) ==
    [ev |-> ev, attempt |-> gwAttempt, exc |-> o.exc, status |-> o.status]

InitGW ==
    /\ now = 0
    /\ \/ configs = EmptyDict /\ requests = EmptyDict /\ locks = EmptyDict
       \/ /\ configs \in [{GwSource} -> GwConfigSet]
          /\ requests = [s \in {GwSource} |-> <<>>]
          /\ locks = [s \in {GwSource} |-> 1]
    /\ held = {}
    /\ pc = [t \in Threads |-> "idle"]
    /\ src = [t \in Threads |-> NoSource]
    /\ cfg = [t \in Threads |-> NoCfg]
    /\ ctime = [t \in Threads |-> 0]
    /\ wake = [t \in Threads |-> 0]
    /\ myLock = [t \in Threads |-> NoLock]
    /\ completed = EmptyDict
    /\ last = NoCall
    /\ calls = <<>>
    /\ gwPc = "call"
    /\ gwMaxRetries \in 0..DefaultMaxRetries
    /\ gwAttempt = 1
    /\ gwOutcome = NoOutcome
    /\ gwRaised = NoOutcome
    /\ gwTrace = <<>>

\* _make_request, line 52: rate_limiter.wait_if_needed(self.source_name)
make_request_acquire ==
    /\ gwPc = "call"
    /\ IF GwSource \in DOMAIN configs
       THEN /\ requests' = Put(requests, GwSource,
                   AcquireWindow(requests[GwSource], configs[GwSource], now))
            /\ now' = now + AcquireSleep(requests[GwSource],
                                         configs[GwSource], now)
            /\ last' = [source |-> GwSource, registered |-> TRUE,
                        waited |-> AcquireSleep(requests[GwSource],
                                       configs[GwSource], now) > 0]
       ELSE /\ UNCHANGED <<requests, now>>
            /\ last' = [source |-> GwSource, registered |-> FALSE,
                        waited |-> FALSE]
    /\ gwTrace' = Append(gwTrace, GwEvent("acquire", NoOutcome))
    /\ gwPc' = "request"
    /\ UNCHANGED <<configs, locks, held, pc, src, cfg, ctime, wake, myLock,
                   completed, calls>>
    /\ UNCHANGED <<gwMaxRetries, gwAttempt, gwOutcome, gwRaised, vsVars,
                   tlVars>>

\* _make_request, lines 69-85: the HTTP request and raise_for_status
make_request_http(r) ==
    /\ gwPc = "request"
    /\ gwOutcome' = raise_for_status(r)
    /\ gwTrace' = Append(gwTrace, GwEvent("http", r))
    /\ gwPc' = IF raise_for_status(r).exc = "none" THEN "returned"
                                                   ELSE "failed"
    /\ UNCHANGED <<rlVars, gwMaxRetries, gwAttempt, gwRaised, vsVars,
                   tlVars>>

\* @retry, lines 38-43: the exception is not retried, or the attempts are
\* used up: reraise=True raises the exception of the last attempt
make_request_reraise ==
    /\ gwPc = "failed"
    /\ \/ ~retry_if_exception_type(gwOutcome)
       \/ stop_after_attempt(gwAttempt, gwMaxRetries)
    /\ gwRaised' = gwOutcome
    /\ gwPc' = "raised"
    /\ UNCHANGED <<rlVars, gwMaxRetries, gwAttempt, gwOutcome, gwTrace,
                   vsVars, tlVars>>

\* faulty variant of retry_calls: a retry resumes at the HTTP request
retry_resumes == "request"

\* @retry wraps the whole of _make_request: the next attempt is a new call
\* of the function, which starts at line 52
retry_calls == "call"

\* @retry, lines 38-43: sleep wait_exponential, then the next attempt
make_request_backoff ==
    /\ gwPc = "failed"
    /\ retry_if_exception_type(gwOutcome)
    /\ ~stop_after_attempt(gwAttempt, gwMaxRetries)
    /\ now' = now + wait_exponential(gwAttempt)
    /\ gwTrace' = Append(gwTrace, GwEvent("backoff", NoOutcome))
    /\ gwAttempt' = gwAttempt + 1
    /\ gwPc' = retry_calls
    /\ UNCHANGED <<configs, requests, locks, held, pc, src, cfg, ctime, wake,
                   myLock, completed, last, calls>>
    /\ UNCHANGED <<gwMaxRetries, gwOutcome, gwRaised, vsVars, tlVars>>

NextGW ==
    \/ make_request_acquire
    \/ \E r \in Responses : make_request_http(r)
    \/ make_request_reraise
    \/ make_request_backoff

\* one _make_request call runs, in one thread
StartGW == InitGW /\ IdleVS /\ IdleTL

SpecGW == StartGW /\ [][NextGW]_vars

\* tenacity runs the attempts of one call in one thread, one after another
SpecGWFair == SpecGW /\ WF_vars(NextGW)

----------------------------------------------------------------------------
(* Properties of the request gateway *)

HttpEvents == { i \in DOMAIN gwTrace : gwTrace[i].ev = "http" }

IsClientError(e) ==
    e.exc = "none" /\ 400 <= e.status /\ e.status < 500 /\ e.status # 429

\* the attempts tenacity makes at most for max_retries
AttemptBound(max_retries) == Max2(1, max_retries)

\* C7: a 4xx response other than 429 is never followed by another HTTP
\* attempt of the same call.
C7_ClientErrorNotRetried ==
    \A i \in HttpEvents :
        IsClientError(gwTrace[i]) => \A j \in HttpEvents : j <= i

\* C8: the attempts of a call never exceed the bound set by max_retries, a
\* call that raises raises the failure of its last attempt, and every call
\* ends.
C8_BoundedRetry ==
    /\ [](/\ gwAttempt <= AttemptBound(gwMaxRetries)
          /\ Cardinality(HttpEvents) <= AttemptBound(gwMaxRetries)
          /\ gwPc = "raised" =>
                /\ gwRaised # NoOutcome
                /\ gwRaised = raise_for_status(
                       [exc |-> gwTrace[Len(gwTrace)].exc,
                        status |-> gwTrace[Len(gwTrace)].status])
                /\ gwTrace[Len(gwTrace)].ev = "http"
                /\ Cardinality(HttpEvents) = AttemptBound(gwMaxRetries))
    /\ <>(gwPc \in {"returned", "raised"})

\* C8 witness: every attempt failed with a network error, a timeout or a
\* 5xx, the attempts were used up and the last failure was raised.
C8_Witness ==
    /\ gwPc = "raised"
    /\ gwMaxRetries = DefaultMaxRetries
    /\ Cardinality(HttpEvents) = DefaultMaxRetries
    /\ \A i \in HttpEvents :
           gwTrace[i].exc \in {"ConnectionError", "Timeout"}
               \/ gwTrace[i].status >= 500
    /\ gwRaised = [exc |-> "Timeout", status |-> 0]
    /\ \E i \in HttpEvents : gwTrace[i].status >= 500

\* C23: every HTTP attempt of the call, a retry included, comes right
\* after an acquire made for the same attempt, and an acquire serves one
\* HTTP attempt at most
C23_AcquireBeforeEveryRequest ==
    /\ \A i \in HttpEvents :
           /\ i > 1
           /\ gwTrace[i - 1].ev = "acquire"
           /\ gwTrace[i - 1].attempt = gwTrace[i].attempt
    /\ \A i, j \in HttpEvents :
           gwTrace[i].attempt = gwTrace[j].attempt => i = j
    /\ gwPc = "request" =>
           /\ gwTrace # <<>>
           /\ gwTrace[Len(gwTrace)].ev = "acquire"
           /\ gwTrace[Len(gwTrace)].attempt = gwAttempt

\* C23 witness: a fetch for a registered source whose first attempt failed
\* and was retried: acquire, http, backoff, acquire, http
C23_Witness ==
    /\ GwSource \in DOMAIN configs
    /\ Len(gwTrace) = 5
    /\ gwTrace[1].ev = "acquire" /\ gwTrace[1].attempt = 1
    /\ gwTrace[2].ev = "http" /\ gwTrace[2].status = 503
    /\ gwTrace[3].ev = "backoff"
    /\ gwTrace[4].ev = "acquire" /\ gwTrace[4].attempt = 2
    /\ gwTrace[5].ev = "http" /\ gwTrace[5].attempt = 2

----------------------------------------------------------------------------
(* ValidationSummary *)

MaxResults == 3             \* add_result calls explored on one summary
DefaultThresholdNum == 95   \* is_valid(threshold=0.95), as 95 / 100
DefaultThresholdDen == 100

Levels == {"INFO", "WARNING", "ERROR", "CRITICAL"}

\* thresholds explored, as fractions <<numerator, denominator>>
Thresholds == { <<0, 1>>, <<1, 2>>, <<3, 4>>, <<1, 1>> }

InitVS ==
    /\ total_checks = 0
    /\ passed_checks = 0
    /\ failed_checks = 0
    /\ warnings = 0
    /\ errors = 0
    /\ critical_issues = 0
    /\ results = <<>>
    /\ verdict = NoVerdict

\* faulty variant of add_result: passed_checks grows for every result
add_result_counts_all_passed(level, passed) ==
    /\ Len(results) < MaxResults
    /\ results' = Append(results, [level |-> level, passed |-> passed])
    /\ total_checks' = total_checks + 1
    /\ passed_checks' = passed_checks + 1
    /\ failed_checks' = IF passed THEN failed_checks ELSE failed_checks + 1
    /\ warnings' = IF ~passed /\ level = "WARNING" THEN warnings + 1
                                                   ELSE warnings
    /\ errors' = IF ~passed /\ level = "ERROR" THEN errors + 1 ELSE errors
    /\ critical_issues' = IF ~passed /\ level = "CRITICAL"
                          THEN critical_issues + 1 ELSE critical_issues
    /\ verdict' = NoVerdict
    /\ UNCHANGED <<rlVars, gwVars, tlVars>>

\* ValidationSummary.add_result(result)
add_result(level, passed) ==
    /\ Len(results) < MaxResults
    /\ results' = Append(results, [level |-> level, passed |-> passed])
    /\ total_checks' = total_checks + 1
    /\ passed_checks' = IF passed THEN passed_checks + 1 ELSE passed_checks
    /\ failed_checks' = IF passed THEN failed_checks ELSE failed_checks + 1
    /\ warnings' = IF ~passed /\ level = "WARNING" THEN warnings + 1
                                                   ELSE warnings
    /\ errors' = IF ~passed /\ level = "ERROR" THEN errors + 1 ELSE errors
    /\ critical_issues' = IF ~passed /\ level = "CRITICAL"
                          THEN critical_issues + 1 ELSE critical_issues
    /\ verdict' = NoVerdict
    /\ UNCHANGED <<rlVars, gwVars, tlVars>>

\* ValidationSummary.is_valid(threshold), threshold = num / den:
\* pass_rate >= threshold and not has_critical, True for an empty summary
is_valid(num, den) ==
    IF total_checks = 0 THEN TRUE
    ELSE /\ passed_checks * den >= num * total_checks
         /\ ~(critical_issues > 0)

\* a caller evaluates summary.is_valid(threshold)
is_valid_call(th) ==
    /\ verdict' = [num |-> th[1], den |-> th[2],
                   valid |-> is_valid(th[1], th[2])]
    /\ UNCHANGED <<total_checks, passed_checks, failed_checks, warnings,
                   errors, critical_issues, results>>
    /\ UNCHANGED <<rlVars, gwVars, tlVars>>

\* a caller evaluates summary.is_valid() with the default threshold
is_valid_default_call ==
    /\ verdict' = [num |-> DefaultThresholdNum, den |-> DefaultThresholdDen,
                   valid |-> is_valid(DefaultThresholdNum,
                                      DefaultThresholdDen)]
    /\ UNCHANGED <<total_checks, passed_checks, failed_checks, warnings,
                   errors, critical_issues, results>>
    /\ UNCHANGED <<rlVars, gwVars, tlVars>>

NextVS ==
    \/ \E level \in Levels, passed \in BOOLEAN : add_result(level, passed)
    \/ \E th \in Thresholds : is_valid_call(th)
    \/ is_valid_default_call

\* the rate limiter is constructed and unused
IdleRL == InitRL

\* one ValidationSummary is filled and evaluated
StartVS == IdleRL /\ IdleGW /\ InitVS /\ IdleTL

SpecVS == StartVS /\ [][NextVS]_vars

----------------------------------------------------------------------------
(* Properties of ValidationSummary *)

Failed(level) ==
    { i \in DOMAIN results : ~results[i].passed /\ results[i].level = level }

\* C9: passed + failed = total = number of stored results, and the
\* per-level counters together never exceed failed.
C9_CounterInvariant ==
    /\ passed_checks + failed_checks = total_checks
    /\ total_checks = Len(results)
    /\ warnings + errors + critical_issues <= failed_checks

\* C9 witness: a summary that holds a passed result, a failed ERROR result
\* and a failed INFO result, which no per-level counter counts.
C9_Witness ==
    /\ passed_checks = 1
    /\ errors = 1
    /\ failed_checks = 2
    /\ Failed("INFO") # {}

\* pass rate >= num / den, on the stored results
RateAtLeast(num, den) ==
    Cardinality({ i \in DOMAIN results : results[i].passed }) * den
        >= num * Len(results)

\* C10: is_valid(threshold) is true exactly when the pass rate reaches the
\* threshold and the summary holds no CRITICAL-level result, passed or not.
C10_NoCriticalResultPresent ==
    \A th \in Thresholds \cup {<<DefaultThresholdNum, DefaultThresholdDen>>} :
        is_valid(th[1], th[2]) <=>
            /\ RateAtLeast(th[1], th[2])
            /\ ~ \E i \in DOMAIN results : results[i].level = "CRITICAL"

----------------------------------------------------------------------------
(* DataValidator: the record sets explored *)

MaxRows == 2        \* rows of the DataFrame handed to validate_dataframe

NaN == -99          \* numpy.nan in a numeric column
NaT == -98          \* a null timestamp
Str == -97          \* a str held in a column, which is then of dtype object
UtcNow == 2         \* datetime.utcnow(), in days

\* The columns every explored DataFrame has besides timestamp.  open, volume,
\* symbol and exchange hold the same valid value in every row; high, low,
\* close and timestamp vary from row to row.
BaseColumns == {"symbol", "open", "high", "low", "close", "volume",
                "exchange"}
VaryingColumns == {"timestamp", "high", "low", "close"}

TimestampValues == {NaT, 1, UtcNow, UtcNow + 2}

\* <<high, low, close>> of a row: a valid bar, a negative close, a missing
\* close, high below low, and a close that is a str
PriceValues ==
    { <<2, 1, 1>>, <<2, 1, -1>>, <<2, 1, NaN>>, <<1, 2, 1>>, <<2, 1, Str>> }

\* rows of a DataFrame with a datetime64 timestamp column
DatedRows ==
    { [timestamp |-> t, high |-> p[1], low |-> p[2], close |-> p[3]]
        : t \in TimestampValues, p \in PriceValues }

\* the row sequences of length n over DatedRows whose timestamps are in ts:
\* the close column is numeric throughout or holds a str in every row
RowSeqs(n, ts) ==
    [1..n -> { r \in DatedRows : r.timestamp \in ts /\ r.close # Str }]
    \cup
    [1..n -> { r \in DatedRows : r.timestamp \in ts /\ r.close = Str }]

\* DataFrames with a datetime64 timestamp column, with a timestamp column
\* that holds only NaN (dtype float64), and without a timestamp column
DataFrames ==
    UNION { { [columns |-> BaseColumns \cup {"timestamp"},
               tsdtype |-> "datetime64", rows |-> rs]
                 : rs \in RowSeqs(n, TimestampValues) }
            \cup
            { [columns |-> BaseColumns \cup {"timestamp"},
               tsdtype |-> "float64", rows |-> rs]
                 : rs \in RowSeqs(n, {NaT}) }
            \cup
            { [columns |-> BaseColumns, tsdtype |-> "none", rows |-> rs]
                 : rs \in RowSeqs(n, {NaT}) }
            : n \in 0..MaxRows }

DataTypes == {"stock", "crypto", "forex", "unknown"}
Tradable == {"stock", "crypto", "forex"}
LevelFloors == {"ERROR", "INFO"}

\* (missing_value_threshold, anomaly_zscore_threshold) as fractions: the
\* values of the test configuration and a laxer pair
ValidatorConfigs ==
    { [missing_threshold |-> <<3, 10>>, anomaly_threshold |-> <<3, 1>>],
      [missing_threshold |-> <<1, 2>>, anomaly_threshold |-> <<1, 1>>] }

\* df[col] of one row
Cell(r, col) == IF col \in VaryingColumns THEN r[col] ELSE 1

isnull(v) == v \in {NaN, NaT}

\* pd.api.types.is_numeric_dtype(df[col])
is_numeric_dtype(df, col) ==
    \A i \in DOMAIN df.rows : Cell(df.rows[i], col) # Str

\* a < b and a > b on column values: False when one side is null
Lt(a, b) == ~isnull(a) /\ ~isnull(b) /\ a < b
Gt(a, b) == ~isnull(a) /\ ~isnull(b) /\ a > b

\* v < q and v >= q for a minimum q = <<num, den>>, the fraction num / den
LtFrac(v, q) == ~isnull(v) /\ v * q[2] < q[1]
GeFrac(v, q) == ~isnull(v) /\ v * q[2] >= q[1]

\* v > m and v <= m for a maximum m = <<a, b>>, the product a * b (which
\* is not computed: 1e12 and 1e15 exceed the integers of the checker)
GtProd(v, m) ==
    /\ ~isnull(v)
    /\ \/ v \div m[1] > m[2]
       \/ v \div m[1] = m[2] /\ v % m[1] > 0
LeProd(v, m) == ~isnull(v) /\ ~GtProd(v, m)

RECURSIVE Concat(_)
Concat(ss) == IF ss = <<>> THEN <<>> ELSE Head(ss) \o Concat(Tail(ss))

\* self.schemas of DataValidator, for the tradable data types
Million == 1000000
schemas ==
    [stock |->
        [required_columns |-> <<"timestamp", "symbol", "open", "high",
                                "low", "close", "volume">>,
         numeric_columns |-> <<"open", "high", "low", "close", "volume",
                               "adj_close">>,
         positive_columns |-> <<"open", "high", "low", "close", "volume">>,
         range_checks |->
            << [col |-> "open", min |-> <<0, 1>>, max |-> <<Million, 1>>],
               [col |-> "high", min |-> <<0, 1>>, max |-> <<Million, 1>>],
               [col |-> "low", min |-> <<0, 1>>, max |-> <<Million, 1>>],
               [col |-> "close", min |-> <<0, 1>>, max |-> <<Million, 1>>],
               [col |-> "volume", min |-> <<0, 1>>,
                max |-> <<Million, Million>>],
               [col |-> "adj_close", min |-> <<0, 1>>,
                max |-> <<Million, 1>>] >>,
         consistency_checks |->
            << [col1 |-> "high", op |-> ">=", col2 |-> "low"],
               [col1 |-> "high", op |-> ">=", col2 |-> "open"],
               [col1 |-> "high", op |-> ">=", col2 |-> "close"],
               [col1 |-> "low", op |-> "<=", col2 |-> "open"],
               [col1 |-> "low", op |-> "<=", col2 |-> "close"] >>],
     crypto |->
        [required_columns |-> <<"timestamp", "symbol", "open", "high",
                                "low", "close", "volume", "exchange">>,
         numeric_columns |-> <<"open", "high", "low", "close", "volume">>,
         positive_columns |-> <<"open", "high", "low", "close", "volume">>,
         range_checks |->
            << [col |-> "open", min |-> <<0, 1>>, max |-> <<Million, 1>>],
               [col |-> "high", min |-> <<0, 1>>, max |-> <<Million, 1>>],
               [col |-> "low", min |-> <<0, 1>>, max |-> <<Million, 1>>],
               [col |-> "close", min |-> <<0, 1>>, max |-> <<Million, 1>>],
               [col |-> "volume", min |-> <<0, 1>>,
                max |-> <<Million, Million * 1000>>] >>,
         consistency_checks |-> <<>>],
     forex |->
        [required_columns |-> <<"timestamp", "symbol", "open", "high",
                                "low", "close">>,
         numeric_columns |-> <<"open", "high", "low", "close">>,
         positive_columns |-> <<"open", "high", "low", "close">>,
         range_checks |->
            << [col |-> "open", min |-> <<1, 10000>>, max |-> <<1000, 1>>],
               [col |-> "high", min |-> <<1, 10000>>, max |-> <<1000, 1>>],
               [col |-> "low", min |-> <<1, 10000>>, max |-> <<1000, 1>>],
               [col |-> "close", min |-> <<1, 10000>>,
                max |-> <<1000, 1>>] >>,
         consistency_checks |-> <<>>]]

\* schema.get(key, []) of every key for a data type without a schema
NoSchema ==
    [required_columns |-> <<>>, numeric_columns |-> <<>>,
     positive_columns |-> <<>>, range_checks |-> <<>>,
     consistency_checks |-> <<>>]

\* self.schemas.get(data_type, {})
SchemaOf(data_type) ==
    IF data_type \in DOMAIN schemas THEN schemas[data_type] ELSE NoSchema

----------------------------------------------------------------------------
(* DataValidator: the checks of validate_dataframe *)

\* ValidationResult(check_name, level, passed, details): check_name is the
\* pair <<prefix, column>>, count the count kept in details, and bound the
\* minimum or maximum kept in details
Result(prefix, col, level, passed, count, bound) ==
    [check_name |-> <<prefix, col>>, level |-> level, passed |-> passed,
     count |-> count, bound |-> bound]

NoBound == <<0, 1>>

\* _validate_schema
_validate_schema(df, schema) ==
    LET required_columns == schema.required_columns
        missing_columns ==
            SelectSeq(required_columns, LAMBDA col : col \notin df.columns)
    IN  IF missing_columns # <<>>
        THEN << Result("required_columns", "", "ERROR", FALSE,
                       Len(missing_columns), NoBound) >>
        ELSE << Result("required_columns", "", "INFO", TRUE, 0, NoBound) >>

\* _validate_missing_values
_validate_missing_values(df, schema, config) ==
    LET cols == schema.numeric_columns
        th == config.missing_threshold
        Check(col) ==
            LET missing_count ==
                    Cardinality({ i \in DOMAIN df.rows : isnull(Cell(df.rows[i], col)) })
                within == missing_count * th[2] <= th[1] * Len(df.rows)
            IN  IF col \in df.columns /\ missing_count > 0
                THEN << Result("missing_values", col,
                               IF within THEN "WARNING" ELSE "ERROR",
                               within, missing_count, th) >>
                ELSE <<>>
    IN  Concat([i \in DOMAIN cols |-> Check(cols[i])])

\* _validate_data_types
_validate_data_types(df, schema) ==
    LET cols == schema.numeric_columns
        Check(col) ==
            LET non_numeric_count ==
                    Cardinality({ i \in DOMAIN df.rows : Cell(df.rows[i], col) = Str \/ isnull(Cell(df.rows[i], col)) })
            IN  IF col \in df.columns /\ ~is_numeric_dtype(df, col)
                THEN << Result("data_type", col, "ERROR", FALSE,
                               non_numeric_count, NoBound) >>
                ELSE <<>>
    IN  Concat([i \in DOMAIN cols |-> Check(cols[i])])

\* _validate_ranges without the positivity checks (the faulty variant of
\* _validate_ranges)
_validate_ranges_no_positivity(df, schema) ==
    LET range_checks == schema.range_checks
        RangeCheck(rc) ==
            LET below_min ==
                    Cardinality({ i \in DOMAIN df.rows : LtFrac(Cell(df.rows[i], rc.col), rc.min) })
                above_max ==
                    Cardinality({ i \in DOMAIN df.rows : GtProd(Cell(df.rows[i], rc.col), rc.max) })
            IN  IF rc.col \in df.columns /\ is_numeric_dtype(df, rc.col)
                THEN (IF below_min > 0
                      THEN << Result("range_min", rc.col, "ERROR", FALSE,
                                     below_min, rc.min) >>
                      ELSE <<>>)
                     \o
                     (IF above_max > 0
                      THEN << Result("range_max", rc.col, "ERROR", FALSE,
                                     above_max, rc.max) >>
                      ELSE <<>>)
                ELSE <<>>
    IN  Concat([i \in DOMAIN range_checks |-> RangeCheck(range_checks[i])])

\* _validate_ranges: the range checks, then the checks of positive_columns
_validate_ranges(df, schema) ==
    LET range_checks == schema.range_checks
        positive_columns == schema.positive_columns
        RangeCheck(rc) ==
            LET below_min ==
                    Cardinality({ i \in DOMAIN df.rows : LtFrac(Cell(df.rows[i], rc.col), rc.min) })
                above_max ==
                    Cardinality({ i \in DOMAIN df.rows : GtProd(Cell(df.rows[i], rc.col), rc.max) })
            IN  IF rc.col \in df.columns /\ is_numeric_dtype(df, rc.col)
                THEN (IF below_min > 0
                      THEN << Result("range_min", rc.col, "ERROR", FALSE,
                                     below_min, rc.min) >>
                      ELSE <<>>)
                     \o
                     (IF above_max > 0
                      THEN << Result("range_max", rc.col, "ERROR", FALSE,
                                     above_max, rc.max) >>
                      ELSE <<>>)
                ELSE <<>>
        PositiveCheck(col) ==
            LET negative_count ==
                    Cardinality({ i \in DOMAIN df.rows : Lt(Cell(df.rows[i], col), 0) })
            IN  IF col \in df.columns /\ is_numeric_dtype(df, col)
                   /\ negative_count > 0
                THEN << Result("positive_values", col, "ERROR", FALSE,
                               negative_count, NoBound) >>
                ELSE <<>>
    IN  Concat([i \in DOMAIN range_checks |-> RangeCheck(range_checks[i])])
        \o
        Concat([i \in DOMAIN positive_columns |->
                    PositiveCheck(positive_columns[i])])

\* df[col1] < df[col2] raises TypeError when one of the columns holds str
Comparable(df, col1, col2) ==
    is_numeric_dtype(df, col1) /\ is_numeric_dtype(df, col2)

\* _validate_consistency: a condition whose evaluation raises is skipped
_validate_consistency(df, schema) ==
    LET checks == schema.consistency_checks
        Check(cc) ==
            LET violations ==
                    IF cc.op = ">="
                    THEN Cardinality({ i \in DOMAIN df.rows : Lt(Cell(df.rows[i], cc.col1), Cell(df.rows[i], cc.col2)) })
                    ELSE Cardinality({ i \in DOMAIN df.rows : Gt(Cell(df.rows[i], cc.col1), Cell(df.rows[i], cc.col2)) })
            IN  IF cc.col1 \in df.columns /\ cc.col2 \in df.columns
                   /\ Comparable(df, cc.col1, cc.col2) /\ violations > 0
                THEN << Result("consistency",
                               <<cc.col1,
                                 IF cc.op = ">=" THEN "gte" ELSE "lte",
                                 cc.col2>>,
                               "ERROR", FALSE, violations, NoBound) >>
                ELSE <<>>
    IN  Concat([i \in DOMAIN checks |-> Check(checks[i])])

\* df['timestamp'].dt raises AttributeError unless the column is
\* datetime-typed
_validate_timestamps_raises(df) ==
    "timestamp" \in df.columns /\ df.tsdtype # "datetime64"

\* _validate_timestamps, on a datetime-typed column
_validate_timestamps(df) ==
    LET n == Len(df.rows)
        ts(i) == df.rows[i].timestamp
        null_timestamps == Cardinality({ i \in 1..n : isnull(ts(i)) })
        future_timestamps ==
            Cardinality({ i \in 1..n : Gt(ts(i), UtcNow + 1) })
        non_chronological ==
            Cardinality({ i \in 2..n : /\ ~isnull(ts(i)) /\ ~isnull(ts(i - 1))
                                       /\ ts(i) - ts(i - 1) <= 0 })
    IN  IF "timestamp" \notin df.columns THEN <<>>
        ELSE (IF null_timestamps > 0
              THEN << Result("null_timestamps", "", "ERROR", FALSE,
                             null_timestamps, NoBound) >>
              ELSE <<>>)
             \o
             (IF future_timestamps > 0
              THEN << Result("future_timestamps", "", "WARNING", TRUE,
                             future_timestamps, NoBound) >>
              ELSE <<>>)
             \o
             (IF n > 1 /\ non_chronological > 0
              THEN << Result("chronological_order", "", "WARNING", TRUE,
                             non_chronological, NoBound) >>
              ELSE <<>>)

RECURSIVE SumSeq(_)
SumSeq(s) == IF s = <<>> THEN 0 ELSE Head(s) + SumSeq(Tail(s))

\* _validate_anomalies: |v - mean| / std > threshold with the sample
\* standard deviation, in integers: for n values of sum S and
\* Q = sum of (n*v - S)^2, std > 0 iff Q > 0 and the z-score of v exceeds
\* tn / td iff (n*v - S)^2 * (n - 1) * td^2 > tn^2 * Q
_validate_anomalies(df, schema, config) ==
    LET cols == schema.numeric_columns
        th == config.anomaly_threshold
        Check(col) ==
            LET values ==
                    SelectSeq([i \in DOMAIN df.rows |-> Cell(df.rows[i], col)],
                              LAMBDA v : ~isnull(v))
                n == Len(values)
                S == SumSeq(values)
                dev(i) == (n * values[i] - S) * (n * values[i] - S)
                Q == SumSeq([i \in 1..n |-> dev(i)])
                anomalies ==
                    Cardinality({ i \in 1..n :
                        dev(i) * (n - 1) * th[2] * th[2] > th[1] * th[1] * Q })
            IN  IF /\ col \in df.columns /\ is_numeric_dtype(df, col)
                   /\ n > 2 /\ Q > 0 /\ anomalies > 0
                THEN << Result("anomalies", col, "WARNING", TRUE, anomalies,
                               th) >>
                ELSE <<>>
    IN  Concat([i \in DOMAIN cols |-> Check(cols[i])])

\* unique_constraints of _validate_uniqueness
unique_constraints ==
    [stock |-> <<"timestamp", "symbol">>,
     crypto |-> <<"timestamp", "symbol", "exchange">>,
     forex |-> <<"timestamp", "symbol">>,
     economic |-> <<"timestamp", "series_id">>,
     weather |-> <<"timestamp", "location">>,
     sentiment |-> <<"timestamp", "entity", "source">>]

\* _validate_uniqueness: df.duplicated(subset, keep=False) marks every row
\* whose key another row has too
_validate_uniqueness(df, data_type) ==
    LET constraint_cols ==
            IF data_type \in DOMAIN unique_constraints
            THEN unique_constraints[data_type] ELSE <<>>
        existing_cols ==
            SelectSeq(constraint_cols, LAMBDA col : col \in df.columns)
        Key(r) == [k \in DOMAIN existing_cols |-> Cell(r, existing_cols[k])]
        duplicates ==
            Cardinality({ i \in DOMAIN df.rows :
                \E j \in DOMAIN df.rows :
                    j # i /\ Key(df.rows[j]) = Key(df.rows[i]) })
    IN  IF existing_cols # <<>> /\ Len(df.rows) > 0 /\ duplicates > 0
        THEN << Result("duplicate_records", "", "ERROR", FALSE, duplicates,
                       NoBound) >>
        ELSE <<>>

\* s without its element at position m
RemoveAt(s, m) == SubSeq(s, 1, m - 1) \o SubSeq(s, m + 1, Len(s))

\* ascending order
RECURSIVE sort_values(_)
sort_values(s) ==
    IF s = <<>> THEN <<>>
    ELSE LET m == CHOOSE i \in DOMAIN s : \A j \in DOMAIN s : s[i] <= s[j]
         IN  <<s[m]>> \o sort_values(RemoveAt(s, m))

\* _validate_completeness: sort_values puts the null timestamps last and
\* diff().dropna() keeps the differences of the others; twice the median
\* of k sorted differences is the sum of the two middle ones
_validate_completeness(df) ==
    LET sorted ==
            sort_values(SelectSeq([i \in DOMAIN df.rows |-> df.rows[i].timestamp],
                              LAMBDA v : ~isnull(v)))
        time_diffs == [i \in 1..(Len(sorted) - 1) |-> sorted[i + 1] - sorted[i]]
        sd == sort_values(time_diffs)
        k == Len(sd)
        twice_median == sd[(k + 1) \div 2] + sd[(k + 2) \div 2]
        gaps == { i \in DOMAIN time_diffs : time_diffs[i] > twice_median }
    IN  IF "timestamp" \notin df.columns \/ Len(df.rows) < 2 THEN <<>>
        ELSE IF Len(sorted) < 2 THEN <<>>
        ELSE IF Cardinality(gaps) > 0
             THEN << Result("time_gaps", "", "WARNING", TRUE,
                            Cardinality(gaps), NoBound) >>
             ELSE <<>>

\* _filter_invalid_rows(df, summary), rs = summary.results
_filter_invalid_rows(df, rs) ==
    LET critical_checks ==
            SelectSeq(rs, LAMBDA c : c.level \in {"ERROR", "CRITICAL"}
                                       /\ ~c.passed)
        Keeps(c, r) ==
            LET prefix == c.check_name[1]
                col == c.check_name[2]
            IN  IF prefix = "range_min"
                THEN col \in df.columns => GeFrac(Cell(r, col), c.bound)
                ELSE IF prefix = "range_max"
                THEN col \in df.columns => LeProd(Cell(r, col), c.bound)
                ELSE IF prefix = "positive_values"
                THEN col \in df.columns => GeFrac(Cell(r, col), <<0, 1>>)
                ELSE IF prefix = "null_timestamps"
                THEN ~isnull(r.timestamp)
                ELSE TRUE
        mask(r) == \A k \in DOMAIN critical_checks : Keeps(critical_checks[k], r)
    IN  IF df.rows = <<>> \/ critical_checks = <<>> THEN df
        ELSE [df EXCEPT !.rows = SelectSeq(df.rows, mask)]

----------------------------------------------------------------------------
(* DataValidator.validate_dataframe *)

EmptySummary ==
    [total_checks |-> 0, passed_checks |-> 0, failed_checks |-> 0,
     warnings |-> 0, errors |-> 0, critical_issues |-> 0, results |-> <<>>]

\* summary.add_result(r), on the summary as a value
AddTo(s, r) ==
    [total_checks |-> s.total_checks + 1,
     passed_checks |-> IF r.passed THEN s.passed_checks + 1
                                   ELSE s.passed_checks,
     failed_checks |-> IF r.passed THEN s.failed_checks
                                   ELSE s.failed_checks + 1,
     warnings |-> IF ~r.passed /\ r.level = "WARNING" THEN s.warnings + 1
                                                      ELSE s.warnings,
     errors |-> IF ~r.passed /\ r.level = "ERROR" THEN s.errors + 1
                                                  ELSE s.errors,
     critical_issues |-> IF ~r.passed /\ r.level = "CRITICAL"
                         THEN s.critical_issues + 1 ELSE s.critical_issues,
     results |-> Append(s.results, r)]

\* the summary after add_result of every element of rs, in order
RECURSIVE Summarize(_)
Summarize(rs) ==
    IF rs = <<>> THEN EmptySummary
    ELSE AddTo(Summarize(SubSeq(rs, 1, Len(rs) - 1)), rs[Len(rs)])

\* the summary a validate_dataframe call returns becomes the summary held
ReturnSummary(s) ==
    /\ total_checks' = s.total_checks
    /\ passed_checks' = s.passed_checks
    /\ failed_checks' = s.failed_checks
    /\ warnings' = s.warnings
    /\ errors' = s.errors
    /\ critical_issues' = s.critical_issues
    /\ results' = s.results

\* the nine checks of validate_dataframe, in their order
RunChecks(df, data_type, config) ==
    LET schema == SchemaOf(data_type)
    IN  _validate_schema(df, schema)
        \o _validate_missing_values(df, schema, config)
        \o _validate_data_types(df, schema)
        \o _validate_ranges(df, schema)
        \o _validate_consistency(df, schema)
        \o _validate_timestamps(df)
        \o _validate_anomalies(df, schema, config)
        \o _validate_uniqueness(df, data_type)
        \o _validate_completeness(df)

\* a DataValidator is constructed
InitDV ==
    /\ dvPc = "ready"
    /\ dvDf = NoDf
    /\ dvType = "none"
    /\ dvLevel = "none"
    /\ dvConfig = NoConfig
    /\ dvOut = NoDf

\* the arguments of the call are kept for the observer
Called(df, data_type, validation_level, config) ==
    /\ dvDf' = df
    /\ dvType' = data_type
    /\ dvLevel' = validation_level
    /\ dvConfig' = config

\* validate_dataframe on an empty df: one failed ERROR result, df returned
validate_dataframe_empty(data_type, validation_level, config) ==
    /\ dvPc = "ready"
    /\ \E df \in DataFrames :
        /\ df.rows = <<>>
        /\ ReturnSummary(Summarize(
               << Result("empty_dataframe", "", "ERROR", FALSE, 0,
                         NoBound) >>))
        /\ verdict' = NoVerdict
        /\ dvOut' = df
        /\ Called(df, data_type, validation_level, config)
    /\ dvPc' = "returned"
    /\ UNCHANGED <<rlVars, gwVars, stVars, ldVars>>

\* validate_dataframe whose timestamp check raises: nothing is returned
validate_dataframe_raise(data_type, validation_level, config) ==
    /\ dvPc = "ready"
    /\ \E df \in DataFrames :
        /\ df.rows # <<>>
        /\ _validate_timestamps_raises(df)
        /\ Called(df, data_type, validation_level, config)
    /\ dvPc' = "raised"
    /\ UNCHANGED <<dvOut, vsVars, rlVars, gwVars, stVars, ldVars>>

\* faulty variant of validate_dataframe: filters whatever validation_level
validate_dataframe_filters_at_info(data_type, validation_level, config) ==
    /\ dvPc = "ready"
    /\ \E df \in DataFrames :
        /\ df.rows # <<>>
        /\ ~_validate_timestamps_raises(df)
        /\ ReturnSummary(Summarize(RunChecks(df, data_type, config)))
        /\ verdict' = [num |-> DefaultThresholdNum,
                       den |-> DefaultThresholdDen,
                       valid |-> is_valid(DefaultThresholdNum,
                                          DefaultThresholdDen)']
        /\ dvOut' = IF ~verdict'.valid
                    THEN _filter_invalid_rows(df, results')
                    ELSE df
        /\ Called(df, data_type, validation_level, config)
    /\ dvPc' = "returned"
    /\ UNCHANGED <<rlVars, gwVars, stVars, ldVars>>

\* validate_dataframe that returns (df_validated, summary)
validate_dataframe(data_type, validation_level, config) ==
    /\ dvPc = "ready"
    /\ \E df \in DataFrames :
        /\ df.rows # <<>>
        /\ ~_validate_timestamps_raises(df)
        /\ ReturnSummary(Summarize(RunChecks(df, data_type, config)))
        /\ verdict' = [num |-> DefaultThresholdNum,
                       den |-> DefaultThresholdDen,
                       valid |-> is_valid(DefaultThresholdNum,
                                          DefaultThresholdDen)']
        /\ dvOut' = IF ~verdict'.valid /\ validation_level # "INFO"
                    THEN _filter_invalid_rows(df, results')
                    ELSE df
        /\ Called(df, data_type, validation_level, config)
    /\ dvPc' = "returned"
    /\ UNCHANGED <<rlVars, gwVars, stVars, ldVars>>

NextDV ==
    \/ \E t \in DataTypes, l \in LevelFloors, c \in ValidatorConfigs :
           validate_dataframe_empty(t, l, c)
    \/ \E t \in DataTypes, l \in LevelFloors, c \in ValidatorConfigs :
           validate_dataframe_raise(t, l, c)
    \/ \E t \in DataTypes, l \in LevelFloors, c \in ValidatorConfigs :
           validate_dataframe(t, l, c)

\* one validate_dataframe call on a fresh DataValidator
StartDV == IdleRL /\ IdleGW /\ InitVS /\ InitDV /\ IdleST /\ IdleLD

SpecDV == StartDV /\ [][NextDV]_vars

----------------------------------------------------------------------------
(* Properties of DataValidator.validate_dataframe *)

\* the check names <<prefix, column>> of the summary that are prefix_*
Findings(prefix) ==
    { i \in DOMAIN results : results[i].check_name[1] = prefix }

NegativeRows(df, col) ==
    IF col \in df.columns /\ is_numeric_dtype(df, col)
    THEN { i \in DOMAIN df.rows : Lt(Cell(df.rows[i], col), 0) }
    ELSE {}

C13_HighBelowLowInvalid ==
    (/\ dvPc = "returned"
     /\ dvType \in Tradable
     /\ \E i \in DOMAIN dvDf.rows : dvDf.rows[i].high < dvDf.rows[i].low)
    => /\ ~is_valid(DefaultThresholdNum, DefaultThresholdDen)
       /\ \E i \in Findings("consistency") :
              results[i].level \in {"ERROR", "CRITICAL"}

\* C14: validate_dataframe returns a (DataFrame, summary) pair for every
\* record set and data type; it never raises.
C14_ValidatorNeverRaises == dvPc # "raised"

----------------------------------------------------------------------------
(* DataStandardizer (transform/standardizer.py)                            *)
(*                                                                         *)
(* A DataFrame is a set of column names and a sequence of rows, each row a *)
(* function from the column names to cell values.  A cell value is a       *)
(* record with one field: a float, a UTC datetime in minutes since the     *)
(* epoch, a date in days since the epoch, a str (a sequence of             *)
(* characters) or a missing value.                                         *)

Float(x) == [f |-> x]
Datetime(m) == [t |-> m]
Date(d) == [d |-> d]
StrOf(chars) == [s |-> chars]
np_nan == [na |-> "NaN"]
NaTValue == [na |-> "NaT"]
isna(v) == DOMAIN v = {"na"}
is_str(v) == DOMAIN v = {"s"}

\* str.upper() on the letters that occur in the symbols of the model
LowerLetters == <<"a", "p", "l", "b", "t", "c", "u", "s", "d", "n">>
UpperLetters == <<"A", "P", "L", "B", "T", "C", "U", "S", "D", "N">>

upper_char(c) ==
    IF \E i \in DOMAIN LowerLetters : LowerLetters[i] = c
    THEN UpperLetters[CHOOSE i \in DOMAIN LowerLetters : LowerLetters[i] = c]
    ELSE c

str_upper(x) == [i \in DOMAIN x |-> upper_char(x[i])]

\* str.strip(): leading and trailing whitespace removed
str_strip(x) ==
    LET inked == { i \in DOMAIN x : x[i] # " " }
    IN  IF inked = {} THEN <<>>
        ELSE SubSeq(x, CHOOSE i \in inked : \A j \in inked : i <= j,
                       CHOOSE i \in inked : \A j \in inked : i >= j)

\* str.replace(old, ''): every occurrence of old removed, left to right
RECURSIVE str_remove(_, _)
str_remove(x, old) ==
    IF Len(x) < Len(old) THEN x
    ELSE IF SubSeq(x, 1, Len(old)) = old
         THEN str_remove(SubSeq(x, Len(old) + 1, Len(x)), old)
         ELSE <<Head(x)>> \o str_remove(Tail(x), old)

endswith(x, suffix) ==
    /\ Len(x) >= Len(suffix)
    /\ SubSeq(x, Len(x) - Len(suffix) + 1, Len(x)) = suffix

\* astype(str) of one cell
astype_str(v) ==
    IF is_str(v) THEN v
    ELSE IF isna(v) /\ v.na = "NaN" THEN StrOf(<<"n", "a", "n">>)
    ELSE IF isna(v) /\ v.na = "NaT" THEN StrOf(<<"N", "a", "T">>)
    ELSE StrOf(<<v>>)

\* pd.to_datetime(..., errors='coerce', utc=True) of one cell
to_datetime(v) ==
    IF DOMAIN v = {"t"} THEN v
    ELSE IF DOMAIN v = {"d"} THEN Datetime(v.d * 1440)
    ELSE NaTValue

\* pd.to_numeric(..., errors='coerce') of one cell
to_numeric(v) == IF DOMAIN v = {"f"} THEN v ELSE np_nan

exchange_suffixes ==
    << <<".", "U", "S">>,
       <<".", "O">>,
       <<".", "N">>,
       <<".", "T", "O">>,
       <<".", "V">>,
       <<".", "A", "X">>,
       <<".", "L">>,
       <<".", "D", "E">> >>

symbol_standardization ==
    << <<<<"A", "A", "P", "L", ".", "O">>,
          <<"A", "A", "P", "L">>>>,
       <<<<"A", "A", "P", "L", ".", "U", "S">>,
          <<"A", "A", "P", "L">>>>,
       <<<<"M", "S", "F", "T", ".", "O">>,
          <<"M", "S", "F", "T">>>>,
       <<<<"M", "S", "F", "T", ".", "U", "S">>,
          <<"M", "S", "F", "T">>>>,
       <<<<"G", "O", "O", "G", "L", ".", "O">>,
          <<"G", "O", "O", "G", "L">>>>,
       <<<<"G", "O", "O", "G", "L", ".", "U", "S">>,
          <<"G", "O", "O", "G", "L">>>>,
       <<<<"B", "T", "C", "-", "U", "S", "D">>,
          <<"B", "T", "C", "U", "S", "D", "T">>>>,
       <<<<"B", "T", "C", "/", "U", "S", "D">>,
          <<"B", "T", "C", "U", "S", "D", "T">>>>,
       <<<<"E", "T", "H", "-", "U", "S", "D">>,
          <<"E", "T", "H", "U", "S", "D", "T">>>>,
       <<<<"E", "T", "H", "/", "U", "S", "D">>,
          <<"E", "T", "H", "U", "S", "D", "T">>>>,
       <<<<"E", "U", "R", "/", "U", "S", "D">>,
          <<"E", "U", "R", "U", "S", "D">>>>,
       <<<<"G", "B", "P", "/", "U", "S", "D">>,
          <<"G", "B", "P", "U", "S", "D">>>>,
       <<<<"U", "S", "D", "/", "J", "P", "Y">>,
          <<"U", "S", "D", "J", "P", "Y">>>>,
       <<<<"A", "U", "D", "/", "U", "S", "D">>,
          <<"A", "U", "D", "U", "S", "D">>>> >>

map_symbol(symbol) ==
    IF \E i \in DOMAIN symbol_standardization :
           symbol_standardization[i][1] = symbol
    THEN symbol_standardization[
             CHOOSE i \in DOMAIN symbol_standardization :
                 symbol_standardization[i][1] = symbol][2]
    ELSE symbol

RECURSIVE remove_suffixes(_, _)
remove_suffixes(x, suffixes) ==
    IF suffixes = <<>> THEN x
    ELSE remove_suffixes(str_remove(x, Head(suffixes)), Tail(suffixes))

\* _standardize_symbols on one cell of the symbol column
standardize_symbol(v, data_type) ==
    LET cleaned == str_strip(str_upper(astype_str(v).s))
        mapped == map_symbol(remove_suffixes(cleaned, exchange_suffixes))
        bare == str_remove(str_remove(mapped, <<"-">>), <<"/">>)
    IN  StrOf(CASE data_type = "crypto" ->
                       IF ~endswith(bare, <<"U", "S", "D", "T">>)
                          /\ Len(bare) <= 6
                       THEN bare \o <<"U", "S", "D", "T">>
                       ELSE bare
                [] data_type = "forex" -> str_remove(mapped, <<"/">>)
                [] OTHER -> mapped)

\* pandas: df[col] as a Series, and df[col] = series
column(df, col) == [i \in DOMAIN df.rows |-> df.rows[i][col]]

set_column(df, col, series) ==
    [columns |-> df.columns \cup {col},
     rows |-> [i \in DOMAIN df.rows |->
                  [c \in df.columns \cup {col} |->
                      IF c = col THEN series[i] ELSE df.rows[i][c]]]]

\* self.column_standardization, in the order of the dict; the entries of
\* the time, price and identifier columns
column_standardization ==
    << <<"timestamp", <<"timestamp", "time", "datetime", "date_time">> >>,
       <<"date", <<"date", "trade_date", "transaction_date">> >>,
       <<"time", <<"time", "trade_time">> >>,
       <<"open", <<"open", "open_price", "opening_price">> >>,
       <<"high", <<"high", "high_price", "highest_price">> >>,
       <<"low", <<"low", "low_price", "lowest_price">> >>,
       <<"close", <<"close", "close_price", "closing_price", "price">> >>,
       <<"volume", <<"volume", "trade_volume", "vol">> >>,
       <<"symbol", <<"symbol", "ticker", "instrument", "pair">> >>,
       <<"exchange", <<"exchange", "venue", "market">> >> >>

\* the possible_name at which the inner loop breaks: the first one that is
\* a column of the DataFrame, compared as the strings they are
first_possible(possible_names, columns) ==
    LET hits == { i \in DOMAIN possible_names : possible_names[i] \in columns }
    IN  IF hits = {} THEN "none"
        ELSE possible_names[CHOOSE i \in hits : \A j \in hits : i <= j]

\* column_mapping after the loop: a later entry of the dict overwrites the
\* mapping an earlier entry made for the same column
column_mapping(columns) ==
    [col \in columns |->
        LET ks == { k \in DOMAIN column_standardization :
                      first_possible(column_standardization[k][2], columns)
                          = col }
        IN  IF ks = {} THEN col
            ELSE column_standardization[
                     CHOOSE k \in ks : \A j \in ks : k >= j][1]]

\* str(col).lower() on the column names of the model; they hold no blank,
\* dash or special character, so the two replace calls and the filter of
\* lines 219-222 leave them as they are
clean_name(col) ==
    CASE col = "Ticker" -> "ticker"
      [] col = "Time" -> "time"
      [] col = "Open" -> "open"
      [] OTHER -> col

\* step 1
_standardize_column_names(df) ==
    LET mapping == column_mapping(df.columns)
        new_columns == { clean_name(mapping[col]) : col \in df.columns }
        old(c) == CHOOSE col \in df.columns : clean_name(mapping[col]) = c
    IN  [columns |-> new_columns,
         rows |-> [i \in DOMAIN df.rows |->
                      [c \in new_columns |-> df.rows[i][old(c)]]]]

\* self.standard_dtypes of the time, price and identifier columns
standard_dtypes ==
    [timestamp |-> "datetime64[ns, UTC]", date |-> "datetime64[ns]",
     time |-> "object", open |-> "float64", high |-> "float64",
     low |-> "float64", close |-> "float64", volume |-> "int64",
     symbol |-> "object", exchange |-> "object"]

\* the conversion of one cell to dtype; the nullable Int64 keeps the missing
\* values that to_numeric made
convert_dtype(v, dtype) ==
    CASE dtype \in {"datetime64[ns, UTC]", "datetime64[ns]"} -> to_datetime(v)
      [] dtype \in {"float64", "int64"} -> to_numeric(v)
      [] dtype = "object" -> astype_str(v)

\* step 2
_standardize_data_types(df) ==
    [columns |-> df.columns,
     rows |-> [i \in DOMAIN df.rows |->
                  [c \in df.columns |->
                      IF c \in DOMAIN standard_dtypes
                      THEN convert_dtype(df.rows[i][c], standard_dtypes[c])
                      ELSE df.rows[i][c]]]]

time_columns == <<"timestamp", "date", "datetime">>

date_components ==
    {"date", "year", "month", "day", "hour", "minute", "day_of_week",
     "day_of_year", "week_of_year"}

\* the .dt component of a timestamp; every timestamp of the model lies in
\* January 1970, whose first day is a Thursday in ISO week 1
dt_component(v, name) ==
    IF isna(v) THEN (IF name = "date" THEN NaTValue ELSE np_nan)
    ELSE LET days == v.t \div 1440
         IN  CASE name = "date" -> Date(days)
               [] name = "year" -> Float(1970)
               [] name = "month" -> Float(1)
               [] name = "day" -> Float(days + 1)
               [] name = "hour" -> Float((v.t \div 60) % 24)
               [] name = "minute" -> Float(v.t % 60)
               [] name = "day_of_week" -> Float((days + 3) % 7)
               [] name = "day_of_year" -> Float(days + 1)
               [] name = "week_of_year" -> Float(((days + 3) \div 7) + 1)

\* step 3: the first of time_columns becomes the timestamp, its components
\* become columns, and the column it was read from is dropped unless it is
\* 'timestamp' itself (the 'date' just written goes with a primary 'date')
_standardize_time_data(df) ==
    LET existing_time_cols ==
            SelectSeq(time_columns, LAMBDA col : col \in df.columns)
        primary_time_col == existing_time_cols[1]
        new_columns == df.columns \cup {"timestamp"} \cup date_components
        kept == IF primary_time_col # "timestamp"
                THEN new_columns \ {primary_time_col} ELSE new_columns
    IN  IF existing_time_cols = <<>> THEN df
        ELSE [columns |-> kept,
              rows |-> [i \in DOMAIN df.rows |->
                  LET ts == to_datetime(df.rows[i][primary_time_col])
                  IN  [c \in kept |->
                          IF c = "timestamp" THEN ts
                          ELSE IF c \in date_components
                               THEN dt_component(ts, c)
                               ELSE df.rows[i][c]]]]

\* step 4
_standardize_symbols(df, data_type) ==
    IF "symbol" \notin df.columns THEN df
    ELSE set_column(df, "symbol",
                    [i \in DOMAIN df.rows |->
                        standardize_symbol(df.rows[i]["symbol"], data_type)])

\* step 5 converts prices by the 'currency' column and units for weather
\* and economic data; no DataFrame of the model has these
_standardize_currencies_units(df, data_type) == df

\* the granularity that twice the median difference (in minutes) maps to
granularity_of(twice_median) ==
    CASE twice_median <= 2 * 1 -> <<"1", "m">>
      [] twice_median > 2 * 1 /\ twice_median <= 2 * 5 -> <<"5", "m">>
      [] twice_median > 2 * 5 /\ twice_median <= 2 * 15 -> <<"1", "5", "m">>
      [] twice_median > 2 * 15 /\ twice_median <= 2 * 30 -> <<"3", "0", "m">>
      [] twice_median > 2 * 30 /\ twice_median <= 2 * 60 -> <<"1", "h">>
      [] twice_median > 2 * 60 /\ twice_median <= 2 * 1440 -> <<"1", "d">>
      [] twice_median > 2 * 1440 /\ twice_median <= 2 * 10080
             -> <<"1", "w">>
      [] twice_median > 2 * 10080 /\ twice_median <= 2 * 43200
             -> <<"1", "M">>
      [] OTHER -> <<"c", "u", "s", "t", "o", "m">>

\* _get_target_granularity, with the width of its resample rule in minutes
\* (time_granularity_map: '1h' is '1H', '1d' is '1D')
_get_target_granularity(data_type) ==
    CASE data_type = "stock" -> [name |-> <<"1", "d">>, minutes |-> 1440]
      [] data_type \in {"crypto", "forex"}
             -> [name |-> <<"1", "h">>, minutes |-> 60]

\* the aggregation rules of stock, crypto and forex data
agg_rules ==
    [open |-> "first", high |-> "max", low |-> "min", close |-> "last",
     volume |-> "sum", symbol |-> "first", exchange |-> "first"]

\* one aggregate of the cells of a bin, in the order of the rows; the
\* missing cells are skipped, and a bin without any cell has no first,
\* last, max or min
aggregate(cells, how) ==
    LET present == SelectSeq(cells, LAMBDA v : ~isna(v))
        numbers == [i \in DOMAIN present |-> present[i].f]
    IN  CASE how = "sum" -> Float(SumSeq(numbers))
          [] how # "sum" /\ present = <<>> -> np_nan
          [] how = "first" /\ present # <<>> -> present[1]
          [] how = "last" /\ present # <<>> -> present[Len(present)]
          [] how = "max" /\ present # <<>> ->
                 Float(CHOOSE x \in Range(numbers) :
                           \A y \in Range(numbers) : x >= y)
          [] how = "min" /\ present # <<>> ->
                 Float(CHOOSE x \in Range(numbers) :
                           \A y \in Range(numbers) : x <= y)

\* _resample_to_granularity: one row per bin of the target width between
\* the first and the last occupied bin, holding the timestamp of the bin,
\* the aggregated columns that exist and the granularity
_resample_to_granularity(df, target) ==
    LET w == target.minutes
        bin(i) == df.rows[i]["timestamp"].t \div w
        lo == CHOOSE b \in { bin(i) : i \in DOMAIN df.rows } :
                  \A i \in DOMAIN df.rows : b <= bin(i)
        hi == CHOOSE b \in { bin(i) : i \in DOMAIN df.rows } :
                  \A i \in DOMAIN df.rows : b >= bin(i)
        aggregated == DOMAIN agg_rules \cap df.columns
        columns == {"timestamp", "granularity"} \cup aggregated
        cells(b, c) ==
            LET members == SelectSeq([i \in DOMAIN df.rows |-> i],
                                     LAMBDA i : bin(i) = b)
            IN  [k \in DOMAIN members |-> df.rows[members[k]][c]]
    IN  [columns |-> columns,
         rows |-> [k \in 1..(hi - lo + 1) |->
                      [c \in columns |->
                          CASE c = "timestamp" -> Datetime((lo + k - 1) * w)
                            [] c = "granularity" -> StrOf(target.name)
                            [] OTHER -> aggregate(cells(lo + k - 1, c),
                                                  agg_rules[c])]]]

\* step 6: the granularity is detected from the median of the differences
\* of consecutive timestamps, in the order of the rows, and the DataFrame
\* is resampled when it is not the target of the data type
_standardize_time_granularity(df, data_type) ==
    LET ts == column(df, "timestamp")
        both == SelectSeq([i \in 1..(Len(ts) - 1) |-> i],
                          LAMBDA i : ~isna(ts[i]) /\ ~isna(ts[i + 1]))
        time_diffs == [k \in DOMAIN both |->
                          ts[both[k] + 1].t - ts[both[k]].t]
        sd == sort_values(time_diffs)
        n == Len(sd)
        twice_median == sd[(n + 1) \div 2] + sd[(n + 2) \div 2]
        detected == IF Len(df.rows) > 1 /\ time_diffs # <<>>
                    THEN set_column(df, "granularity",
                             [i \in DOMAIN df.rows |->
                                 StrOf(granularity_of(twice_median))])
                    ELSE df
        target == _get_target_granularity(data_type)
    IN  IF "timestamp" \notin df.columns THEN df
        ELSE IF "granularity" \in detected.columns
                /\ detected.rows[1]["granularity"] # StrOf(target.name)
             THEN _resample_to_granularity(detected, target)
             ELSE detected

required_columns ==
    [stock |-> <<"timestamp", "symbol", "open", "high", "low", "close",
                 "volume">>,
     crypto |-> <<"timestamp", "symbol", "open", "high", "low", "close",
                  "volume", "exchange">>,
     forex |-> <<"timestamp", "symbol", "open", "high", "low", "close">>]

\* step 7: df[col] = np.nan for every required column that is missing
_ensure_required_columns(df, data_type) ==
    LET required == Range(required_columns[data_type])
    IN  [columns |-> df.columns \cup required,
         rows |-> [i \in DOMAIN df.rows |->
                      [c \in df.columns \cup required |->
                          IF c \in df.columns THEN df.rows[i][c]
                          ELSE np_nan]]]

\* sort_values('timestamp'): ascending, the missing timestamps last; rows
\* with equal timestamps keep their order, as numpy's sort leaves them in
\* arrays this short
RECURSIVE sort_by_timestamp(_)
sort_by_timestamp(rows) ==
    IF rows = <<>> THEN <<>>
    ELSE LET before(i, j) ==
                 /\ ~isna(rows[i]["timestamp"])
                 /\ \/ isna(rows[j]["timestamp"])
                    \/ rows[i]["timestamp"].t < rows[j]["timestamp"].t
             m == CHOOSE i \in DOMAIN rows :
                      /\ \A j \in DOMAIN rows : ~before(j, i)
                      /\ \A j \in 1..(i - 1) : before(i, j)
         IN  <<rows[m]>> \o sort_by_timestamp(RemoveAt(rows, m))

\* the subset of drop_duplicates in _finalize_dataframe; the model has no
\* series_id or location column
duplicate_cols(columns) == {"timestamp", "symbol"} \cap columns

\* drop_duplicates(subset=..., keep='last'): a row goes when a later row
\* has the same values in the subset, missing values being equal
drop_duplicates(rows, subset) ==
    LET same(v, w) ==
            IF isna(v) \/ isna(w) THEN isna(v) /\ isna(w) ELSE v = w
        kept == SelectSeq([i \in DOMAIN rows |-> i],
                    LAMBDA i : ~\E j \in (i + 1)..Len(rows) :
                        \A c \in subset : same(rows[i][c], rows[j][c]))
    IN  [k \in DOMAIN kept |-> rows[kept[k]]]

\* step 8: sorted, deduplicated, stamped with the time and the data type
\* (the order of the columns is not modelled)
_finalize_dataframe(df, data_type, utcnow) ==
    LET sorted == IF "timestamp" \in df.columns
                  THEN sort_by_timestamp(df.rows) ELSE df.rows
        subset == duplicate_cols(df.columns)
        deduplicated == IF subset # {} THEN drop_duplicates(sorted, subset)
                        ELSE sorted
        columns == df.columns \cup {"standardized_at", "data_type"}
    IN  IF df.rows = <<>> THEN df
        ELSE [columns |-> columns,
              rows |-> [i \in DOMAIN deduplicated |->
                  [c \in columns |->
                      CASE c = "standardized_at" -> Datetime(utcnow)
                        [] c = "data_type" -> StrOf(<<data_type>>)
                        [] OTHER -> deduplicated[i][c]]]]

\* standardize_dataframe: an empty df is returned as it is, any other goes
\* through the eight steps
standardize_dataframe(df, data_type, utcnow) ==
    IF df.rows = <<>> \/ df.columns = {} THEN df
    ELSE _finalize_dataframe(
             _ensure_required_columns(
                 _standardize_time_granularity(
                     _standardize_currencies_units(
                         _standardize_symbols(
                             _standardize_time_data(
                                 _standardize_data_types(
                                     _standardize_column_names(df))),
                             data_type),
                         data_type),
                     data_type),
                 data_type),
             data_type, utcnow)

\* The raw DataFrames handed to the standardizer: at most one time column,
\* at most one symbol column and the column of the opening price, each
\* under one of the names a source may give it; the rows hold valid
\* timestamps, one symbol for the whole batch and the prices 1, 2, ...
TimestampMinutes == {0, 60, 1500}
TimeNames == {"none", "timestamp", "Time", "date"}
SymbolNames == {"none", "symbol", "Ticker", "ticker"}
OpenNames == {"open", "Open", "open_price"}

RawSymbols ==
    { <<"A", "A", "P", "L", ".", "U", "S">>,
      <<"a", "a", "p", "l">>,
      <<"A", "A", "P", "L", " ", ".", "U", "S">>,
      <<"B", "T", "C", "-", "U", "S", "D">>,
      <<"B", "T", "C">>,
      <<"E", "U", "R", "/", "U", "S", "D">> }

RawFrame(n, tname, times, sname, symbol, oname) ==
    LET columns == {tname, sname, oname} \ {"none"}
    IN  [columns |-> columns,
         rows |-> [i \in 1..n |->
                      [c \in columns |->
                          CASE c = tname -> Datetime(times[i])
                            [] c = sname -> StrOf(symbol)
                            [] c = oname -> Float(i)]]]

RawFrames ==
    UNION { { RawFrame(n, tname, times, sname, symbol, oname) :
                  tname \in TimeNames,
                  times \in [1..n -> TimestampMinutes],
                  sname \in SymbolNames,
                  symbol \in RawSymbols,
                  oname \in OpenNames } : n \in 0..MaxRows }

\* a DataStandardizer is constructed
InitST ==
    /\ stPc = "ready"
    /\ stType = "none"
    /\ stIn = NoFrame
    /\ stOut = NoFrame
    /\ stOut2 = NoFrame

\* standardize_dataframe(df, data_type) on a raw DataFrame
StandardizeRaw(data_type) ==
    /\ stPc = "ready"
    /\ \E df \in RawFrames :
        /\ stIn' = df
        /\ stOut' = standardize_dataframe(df, data_type, 1)
    /\ stType' = data_type
    /\ stPc' = "once"
    /\ UNCHANGED <<stOut2, rlVars, gwVars, vsVars, dvVars, ldVars>>

\* standardize_dataframe(df_std, data_type) on what the first call returned
StandardizeAgain ==
    /\ stPc = "once"
    /\ stOut2' = standardize_dataframe(stOut, stType, 2)
    /\ stPc' = "twice"
    /\ UNCHANGED <<stType, stIn, stOut, rlVars, gwVars, vsVars, dvVars,
                   ldVars>>

NextST ==
    \/ \E data_type \in Tradable : StandardizeRaw(data_type)
    \/ StandardizeAgain

StartST == IdleRL /\ IdleGW /\ IdleVS /\ IdleDV /\ InitST /\ IdleLD

SpecST == StartST /\ [][NextST]_vars

----------------------------------------------------------------------------
(* Properties of the DataStandardizer *)

\* the values of a column that are not missing
Present(df, col) ==
    { df.rows[i][col] : i \in DOMAIN df.rows } \ {np_nan, NaTValue}

\* C15: whatever the input, also one that lacks required columns or is
\* empty, the DataFrame that standardize_dataframe returns has every
\* column required for the data type
C15_RequiredColumnsPresent ==
    stPc \in {"once", "twice"}
        => Range(required_columns[stType]) \subseteq stOut.columns

\* C16: an input column named by an alias in any letter case (Ticker, Open,
\* Time) ends up under the canonical name (symbol, open, timestamp) with the
\* values of the input: the symbols of the output are the cleaned symbols
\* of the input, its opening prices are among those of the input, and it
\* has timestamps
C16_AliasesAnyCase ==
    stPc \in {"once", "twice"} /\ stIn.rows # <<>> =>
        /\ \A col \in {"symbol", "ticker", "Ticker"} \cap stIn.columns :
               /\ "symbol" \in stOut.columns
               /\ Present(stOut, "symbol")
                      = { standardize_symbol(stIn.rows[i][col], stType) :
                              i \in DOMAIN stIn.rows }
        /\ \A col \in {"open", "open_price", "Open"} \cap stIn.columns :
               /\ "open" \in stOut.columns
               /\ Present(stOut, "open") # {}
               /\ Present(stOut, "open")
                      \subseteq { stIn.rows[i][col] : i \in DOMAIN stIn.rows }
        /\ \A col \in {"timestamp", "time", "Time"} \cap stIn.columns :
               /\ "timestamp" \in stOut.columns
               /\ Present(stOut, "timestamp") # {}

\* two DataFrames hold the same data: the same columns and, leaving the
\* standardized_at stamp aside, the same rows, a missing value being equal
\* to a missing value
SameData(a, b) ==
    /\ a.columns = b.columns
    /\ Len(a.rows) = Len(b.rows)
    /\ \A i \in DOMAIN a.rows : \A c \in a.columns \ {"standardized_at"} :
           IF isna(a.rows[i][c]) \/ isna(b.rows[i][c])
           THEN isna(a.rows[i][c]) /\ isna(b.rows[i][c])
           ELSE a.rows[i][c] = b.rows[i][c]

\* C17: standardizing the output of the standardizer again changes neither
\* the rows, nor the column set, nor any value but the standardized_at stamp
C17_StandardizerIdempotent ==
    stPc = "twice" => SameData(stOut, stOut2)

----------------------------------------------------------------------------
(* SupabaseLoader (load/supabase_loader.py)                                *)
(*                                                                         *)
(* The database is the environment of the loader: a data table whose rows  *)
(* are identified by the conflict columns of the data model, and the table *)
(* pipeline_metadata.  A request to it either raises or takes effect as a  *)
(* whole.  The @retry of upsert_data never acts, because upsert_data       *)
(* catches the exception of every chunk itself.                            *)

MaxRecords == 3     \* rows of the DataFrame handed to load_from_dataframe
MaxBatchSize == 2   \* values of settings.batch_size explored
MaxLoads == 2       \* load_from_dataframe calls on one loader

\* the values of the conflict columns (Meta.unique_constraint) of a row
Keys == {"k1", "k2"}

\* StockPrice has a Meta class with table_name and unique_constraint,
\* BaseModel has none
DataModelClasses == {"StockPrice", "BaseModel"}
HasMeta(data_model_class) == data_model_class = "StockPrice"

\* the DataFrames handed to the loader, each row given by its key
Batches == UNION { [1..n -> Keys] : n \in 0..MaxRecords }

\* the data table before the first load: no key is stored twice
StoredRow(k) == [key |-> k, updated_at |-> 0]
InitialStores ==
    { <<>>, <<StoredRow("k1")>>, <<StoredRow("k2"), StoredRow("k1")>> }

\* record.to_dict() of the data model instance made from one row: the
\* fields of the row and the time of the conversion
to_record(row, run) == [key |-> row, updated_at |-> run]

\* faulty variant of upsert_row: the row is added whatever is stored
insert_row(table, record) == Append(table, record)

\* one row written with ON CONFLICT (key) DO UPDATE: it replaces the stored
\* row of its key, or is added
upsert_row(table, record) ==
    IF \E j \in DOMAIN table : table[j].key = record.key
    THEN [j \in DOMAIN table |->
             IF table[j].key = record.key THEN record ELSE table[j]]
    ELSE Append(table, record)

\* client.table(...).upsert(batch, on_conflict=...).execute() taking effect
RECURSIVE upsert(_, _)
upsert(table, batch) ==
    IF batch = <<>> THEN table
    ELSE upsert(upsert_row(table, Head(batch)), Tail(batch))

\* the database rejects a statement that would write one key twice
Accepts(batch) ==
    \A i, j \in DOMAIN batch : batch[i].key = batch[j].key => i = j

\* PipelineMetadata.to_dict(): asdict() of the dataclass fields; an
\* attribute that is not a field, like ended_at, is not part of it
to_dict(metadata) ==
    [run_id |-> metadata.run_id, status |-> metadata.status,
     start_time |-> metadata.start_time, end_time |-> metadata.end_time,
     records_processed |-> metadata.records_processed,
     records_failed |-> metadata.records_failed,
     error_message |-> metadata.error_message]

\* a SupabaseLoader is connected to a database
InitLD ==
    /\ ldPc = "ready"
    /\ ldBatchSize \in 1..MaxBatchSize
    /\ ldClass = None
    /\ ldDf = <<>>
    /\ ldRun = 0
    /\ ldRecords = <<>>
    /\ ldI = 0
    /\ ldResults = NoResults
    /\ ldMetadata = NoMetadata
    /\ ldStore \in InitialStores
    /\ ldMetaTable = <<>>
    /\ ldHistory = <<>>
    /\ ldChunks = <<>>

\* load_from_dataframe up to the first chunk: the metadata object is made
\* with status loading, the rows become records, and the lookup of
\* Meta.table_name raises for a class without Meta; a later call loads
\* the unchanged DataFrame again
load_from_dataframe(df, data_model_class) ==
    /\ ldPc = "ready"
    /\ ldRun < MaxLoads
    /\ ldRun > 0 => df = ldDf /\ data_model_class = ldClass
    /\ ldDf' = df
    /\ ldClass' = data_model_class
    /\ ldRun' = ldRun + 1
    /\ ldMetadata' = [run_id |-> ldRun + 1, status |-> "loading",
                      start_time |-> "utcnow", end_time |-> None,
                      ended_at |-> None, records_processed |-> Len(df),
                      records_failed |-> 0, error_message |-> None]
    /\ ldRecords' = [i \in DOMAIN df |-> to_record(df[i], ldRun + 1)]
    /\ IF HasMeta(data_model_class)
       THEN /\ ldPc' = "upsert"
            /\ ldI' = 1
            /\ ldResults' = [total |-> Len(df), inserted |-> 0,
                             updated |-> 0, failed |-> 0, errors |-> <<>>]
       ELSE /\ ldPc' = "except"
            /\ UNCHANGED <<ldI, ldResults>>
    /\ ldChunks' = <<>>
    /\ UNCHANGED <<ldBatchSize, ldStore, ldMetaTable, ldHistory>>
    /\ UNCHANGED <<rlVars, gwVars, vsVars, dvVars, stVars>>

\* data[i:i + batch_size]
CurrentBatch ==
    SubSeq(ldRecords, ldI, Min2(ldI + ldBatchSize - 1, Len(ldRecords)))

\* faulty variant of range_next: the loop ends after the current chunk
range_stop(i, batch_size, n) == n + 1

\* the value of i after i in range(0, len(data), batch_size)
range_next(i, batch_size, n) == i + batch_size

\* the observer's record of one pass of the loop
Attempt(raised) ==
    Append(ldChunks, [start |-> ldI, batch |-> CurrentBatch,
                      raised |-> raised])

\* one pass of the loop of upsert_data whose upsert takes effect: the
\* response carries the rows the database gives back, and
\* len(response.data) is added to inserted
upsert_chunk(response_data_len) ==
    /\ ldPc = "upsert"
    /\ ldI <= Len(ldRecords)
    /\ Accepts(CurrentBatch)
    /\ response_data_len \in 0..Len(CurrentBatch)
    /\ ldStore' = upsert(ldStore, CurrentBatch)
    /\ ldResults' = [ldResults EXCEPT
                        !.inserted = @ + response_data_len]
    /\ ldI' = range_next(ldI, ldBatchSize, Len(ldRecords))
    /\ ldChunks' = Attempt(FALSE)
    /\ UNCHANGED <<ldPc, ldBatchSize, ldClass, ldDf, ldRun, ldRecords,
                   ldMetadata, ldMetaTable, ldHistory>>
    /\ UNCHANGED <<rlVars, gwVars, vsVars, dvVars, stVars>>

\* one pass of the loop whose upsert raises: the except clause counts the
\* rows of the chunk as failed and keeps the message
upsert_chunk_raises ==
    /\ ldPc = "upsert"
    /\ ldI <= Len(ldRecords)
    /\ ldResults' = [ldResults EXCEPT
                        !.failed = @ + Len(CurrentBatch),
                        !.errors = Append(@, "str(e)")]
    /\ ldI' = range_next(ldI, ldBatchSize, Len(ldRecords))
    /\ ldChunks' = Attempt(TRUE)
    /\ UNCHANGED <<ldPc, ldBatchSize, ldClass, ldDf, ldRun, ldRecords,
                   ldMetadata, ldStore, ldMetaTable, ldHistory>>
    /\ UNCHANGED <<rlVars, gwVars, vsVars, dvVars, stVars>>

\* _save_pipeline_metadata: the insert into pipeline_metadata takes effect,
\* or it raises and the except clause only logs
SavedMetadata(metadata, insert_raises) ==
    IF insert_raises THEN ldMetaTable
    ELSE Append(ldMetaTable, to_dict(metadata))

\* the observer's record of a call that ended
Ended(outcome, metadata, insert_raises) ==
    Append(ldHistory,
           [run |-> ldRun, outcome |-> outcome, results |-> ldResults,
            rows |-> Len(ldStore), metadata |-> metadata,
            saved |-> ~insert_raises])

\* faulty variant of flag_failures: the status is set, the message is not
flag_status_only(metadata, failed) ==
    IF failed > 0 THEN [metadata EXCEPT !.status = "partial_failure"]
    ELSE metadata

\* if load_results["failed"] > 0: the message and the status of the
\* metadata object are set
flag_failures(metadata, failed) ==
    IF failed > 0
    THEN [metadata EXCEPT !.error_message = "Failed to load records",
                          !.status = "partial_failure"]
    ELSE metadata

\* load_from_dataframe after upsert_data returned: the metadata object is
\* completed or partial_failure, ended_at is set, the metadata is saved and
\* the results are returned
load_from_dataframe_return(insert_raises) ==
    /\ ldPc = "upsert"
    /\ ldI > Len(ldRecords)
    /\ LET completed_metadata ==
               [ldMetadata EXCEPT
                   !.status = "completed",
                   !.ended_at = "utcnow",
                   !.records_processed = ldResults.inserted,
                   !.records_failed = ldResults.failed]
           metadata == flag_failures(completed_metadata, ldResults.failed)
       IN  /\ ldMetadata' = metadata
           /\ ldMetaTable' = SavedMetadata(metadata, insert_raises)
           /\ ldHistory' = Ended("returned", metadata, insert_raises)
    /\ ldPc' = "ready"
    /\ ldChunks' = <<>>
    /\ UNCHANGED <<ldBatchSize, ldClass, ldDf, ldRun, ldRecords, ldI,
                   ldResults, ldStore>>
    /\ UNCHANGED <<rlVars, gwVars, vsVars, dvVars, stVars>>

\* the except clause of load_from_dataframe: the metadata object is failed,
\* ended_at is set, the metadata is saved and the exception is raised again
load_from_dataframe_raise(insert_raises) ==
    /\ ldPc = "except"
    /\ LET metadata ==
               [ldMetadata EXCEPT
                   !.status = "failed",
                   !.ended_at = "utcnow",
                   !.error_message = "str(e)"]
       IN  /\ ldMetadata' = metadata
           /\ ldMetaTable' = SavedMetadata(metadata, insert_raises)
           /\ ldHistory' = Ended("raised", metadata, insert_raises)
    /\ ldPc' = "ready"
    /\ ldChunks' = <<>>
    /\ UNCHANGED <<ldBatchSize, ldClass, ldDf, ldRun, ldRecords, ldI,
                   ldResults, ldStore>>
    /\ UNCHANGED <<rlVars, gwVars, vsVars, dvVars, stVars>>

NextLD ==
    \/ \E df \in Batches, data_model_class \in DataModelClasses :
           load_from_dataframe(df, data_model_class)
    \/ upsert_chunk(Len(CurrentBatch))
    \/ upsert_chunk_raises
    \/ \E insert_raises \in BOOLEAN :
           load_from_dataframe_return(insert_raises)
    \/ \E insert_raises \in BOOLEAN :
           load_from_dataframe_raise(insert_raises)

StartLD == IdleRL /\ IdleGW /\ IdleVS /\ IdleDV /\ IdleST /\ InitLD

\* the database gives back every row it was sent
SpecLD == StartLD /\ [][NextLD]_vars

\* the steps of the loader when the response of an upsert may hold fewer
\* rows than the chunk that was sent
NextLDResponse ==
    \/ \E df \in Batches, data_model_class \in DataModelClasses :
           load_from_dataframe(df, data_model_class)
    \/ \E response_data_len \in 0..MaxBatchSize :
           upsert_chunk(response_data_len)
    \/ upsert_chunk_raises
    \/ \E insert_raises \in BOOLEAN :
           load_from_dataframe_return(insert_raises)
    \/ \E insert_raises \in BOOLEAN :
           load_from_dataframe_raise(insert_raises)

SpecLDResponse == StartLD /\ [][NextLDResponse]_vars

----------------------------------------------------------------------------
(* Properties of the SupabaseLoader *)

\* the call returned and no chunk of it failed
AllChunksSucceeded(h) == h.outcome = "returned" /\ h.results.failed = 0

\* C18: no key is ever stored twice in the data table, and when a load and
\* the next load of the unchanged DataFrame both have all their chunks
\* succeed, the table has as many rows after the second as after the first
C18_LoaderIdempotent ==
    /\ \A i, j \in DOMAIN ldStore :
           ldStore[i].key = ldStore[j].key => i = j
    /\ \A n \in DOMAIN ldHistory :
           /\ n > 1
           /\ AllChunksSucceeded(ldHistory[n - 1])
           /\ AllChunksSucceeded(ldHistory[n])
           => ldHistory[n].rows = ldHistory[n - 1].rows

\* two loads of a DataFrame of three rows with two keys, one of them stored
\* before: each load wrote three records and the table holds two rows
C18_Witness ==
    /\ Len(ldHistory) >= 2
    /\ AllChunksSucceeded(ldHistory[1])
    /\ AllChunksSucceeded(ldHistory[2])
    /\ ldHistory[1].results.inserted = 3
    /\ ldHistory[2].results.inserted = 3
    /\ ldHistory[2].rows = 2
    /\ \E i \in DOMAIN ldStore : ldStore[i].updated_at = 2

\* C19: the metadata object starts as loading; a call ends with status
\* failed when it raised or every chunk's upsert raised, else completed
\* when no chunk failed and partial_failure when some did; no persisted
\* metadata row has status loading
C19_FinalStatus ==
    /\ ldPc \in {"upsert", "except"} => ldMetadata.status = "loading"
    /\ \A n \in DOMAIN ldHistory :
           LET h == ldHistory[n]
               nothing_completed ==
                   \/ h.outcome = "raised"
                   \/ h.results.total > 0
                      /\ h.results.failed = h.results.total
           IN  h.metadata.status =
                   IF nothing_completed THEN "failed"
                   ELSE IF h.results.failed = 0 THEN "completed"
                   ELSE "partial_failure"
    /\ \A k \in DOMAIN ldMetaTable : ldMetaTable[k].status # "loading"

\* C20: every call that ended, returned or raised, has its row in
\* pipeline_metadata, and the row has an end_time
C20_MetadataPersisted ==
    \A n \in DOMAIN ldHistory :
        \E k \in DOMAIN ldMetaTable :
            /\ ldMetaTable[k].run_id = ldHistory[n].run
            /\ ldMetaTable[k].end_time # None

\* ceil(n / b), the number of chunks of n rows
ChunkCount(n, b) == (n + b - 1) \div b

\* the k-th chunk formed from the records handed to upsert_data
ChunkOf(k) ==
    SubSeq(ldRecords, (k - 1) * ldBatchSize + 1,
           Min2(k * ldBatchSize, Len(ldRecords)))

\* the number of rows of the chunks whose upsert raised
FailedRows ==
    SumSeq([k \in DOMAIN ldChunks |->
               IF ldChunks[k].raised THEN Len(ldChunks[k].batch) ELSE 0])

\* the loop of upsert_data has ended
LoopEnded == ldPc = "upsert" /\ ldI > Len(ldRecords)

\* C21: the upserts attempted so far are the first chunks of the input, one
\* attempt each and in input order, whether earlier ones raised or not, and
\* all ceil(n/b) chunks have been attempted when the loop ends;
\* failed is the number of rows of the chunks that raised, errors has one
\* entry for each of them, the rows of every chunk that was accepted are
\* stored, and total is n
C21_ChunkIsolation ==
    ldPc = "upsert" =>
        /\ Len(ldChunks) <= ChunkCount(Len(ldRecords), ldBatchSize)
        /\ \A k \in DOMAIN ldChunks :
               /\ ldChunks[k].start = (k - 1) * ldBatchSize + 1
               /\ ldChunks[k].batch = ChunkOf(k)
               /\ ldChunks[k].batch # <<>>
        /\ LoopEnded =>
               Len(ldChunks) = ChunkCount(Len(ldRecords), ldBatchSize)
        /\ ldResults.failed = FailedRows
        /\ Len(ldResults.errors) =
               Cardinality({ k \in DOMAIN ldChunks : ldChunks[k].raised })
        /\ \A k \in DOMAIN ldChunks :
               ~ldChunks[k].raised =>
                   \A j \in DOMAIN ldChunks[k].batch :
                       \E r \in DOMAIN ldStore :
                           ldStore[r] = ldChunks[k].batch[j]
        /\ ldResults.total = Len(ldRecords)
        /\ Len(ldRecords) = Len(ldDf)

\* three rows in chunks of two: the first chunk raised, the second was
\* attempted all the same and its row is stored
C21_Witness ==
    /\ LoopEnded
    /\ Len(ldRecords) = 3
    /\ ldBatchSize = 2
    /\ Len(ldChunks) = 2
    /\ ldChunks[1].raised
    /\ ~ldChunks[2].raised
    /\ ldResults.failed = 2
    /\ Len(ldResults.errors) = 1
    /\ \E r \in DOMAIN ldStore : ldStore[r] = ldRecords[3]

\* the call returned after some chunks raised and some were accepted
PartialFailure(h) ==
    /\ h.outcome = "returned"
    /\ 0 < h.results.failed
    /\ h.results.failed < h.results.total

\* C22: a call does not enter its except clause once a chunk was attempted,
\* so a load with partial failures returns its results; the row persisted
\* for it has status partial_failure and an error_message, and a persisted
\* row with status completed has no error_message
C22_PartialFailureFlagged ==
    /\ ldPc = "except" => ldChunks = <<>>
    /\ \A n \in DOMAIN ldHistory :
           PartialFailure(ldHistory[n]) =>
               \A k \in DOMAIN ldMetaTable :
                   ldMetaTable[k].run_id = ldHistory[n].run =>
                       /\ ldMetaTable[k].status = "partial_failure"
                       /\ ldMetaTable[k].error_message # None
    /\ \A k \in DOMAIN ldMetaTable :
           ldMetaTable[k].status = "completed" =>
               ldMetaTable[k].error_message = None

\* a first load with one chunk of two raising and a second load without
\* failure, both persisted: one row partial_failure with its message, one
\* row completed without
C22_Witness ==
    /\ Len(ldHistory) = 2
    /\ PartialFailure(ldHistory[1])
    /\ ldHistory[1].results.errors # <<>>
    /\ Len(ldMetaTable) = 2
    /\ ldMetaTable[1].run_id = 1
    /\ ldMetaTable[1].status = "partial_failure"
    /\ ldMetaTable[1].error_message = "Failed to load records"
    /\ ldMetaTable[2].status = "completed"

\* C30: a call whose persisted metadata row has status completed returned
\* inserted equal to the number of rows of its DataFrame
C30_CompletedDeliversAll ==
    \A n \in DOMAIN ldHistory :
        (\E k \in DOMAIN ldMetaTable :
            /\ ldMetaTable[k].run_id = ldHistory[n].run
            /\ ldMetaTable[k].status = "completed")
        => ldHistory[n].results.inserted = Len(ldDf)

----------------------------------------------------------------------------
(* Order and exclusion of the acquires of one source *)

\* the threads that called wait_if_needed for the source of u before u did
\* and whose call has not ended
EarlierCallers(u) ==
    { calls[i] : i \in { i \in DOMAIN calls :
                           /\ src[calls[i]] = src[u]
                           /\ \E j \in DOMAIN calls : calls[j] = u /\ i < j } }

\* C24: the acquires of one source complete in the order of their calls:
\* when the acquire of a thread returns, no thread that called acquire for
\* the same source before it is still inside its call
C24_FifoWithinSource ==
    [][\A u \in Threads :
        (pc[u] \in {"a_test", "a_sleep"} /\ pc'[u] = "idle") =>
            EarlierCallers(u) = {}]_vars

\* no register_source call for source s is between its lines 27 and 29
Registered(s) ==
    /\ s \in (DOMAIN configs) \cap (DOMAIN requests) \cap (DOMAIN locks)
    /\ \A t \in Threads : pc[t] \in {"r_requests", "r_locks"} => src[t] # s

\* C26: the window of a registered source with max_requests >= 0 never
\* holds more than max_requests timestamps, and when an acquire returns,
\* every timestamp of the window is newer than the time the acquire read
\* minus time_window
C26_WindowInvariant ==
    [][/\ \A s \in Sources :
            (Registered(s) /\ configs[s].max_requests >= 0 =>
                Len(requests[s]) <= configs[s].max_requests)'
       /\ \A t \in Threads :
            (pc[t] \in {"a_test", "a_sleep"} /\ pc'[t] = "idle") =>
                \A i \in DOMAIN requests'[src[t]] :
                    requests'[src[t]][i] > ctime[t] - cfg[t].time_window]_vars


\* the threads inside the prune/check/record section of source s
InSection(s) ==
    { t \in Threads : pc[t] \in {"a_test", "a_sleep"} /\ src[t] = s }

\* C27: at most one thread at a time is inside the prune/check/record
\* section of a source, and registering a source that is registered
\* already drops no request recorded in its window
C27_ExclusionSurvivesRegistration ==
    [][/\ \A s \in Sources : Cardinality(InSection(s)') <= 1
       /\ \A t \in Threads :
            (pc[t] = "r_requests" /\ pc'[t] = "r_locks"
                /\ src[t] \in DOMAIN requests) =>
                requests'[src[t]] = requests[src[t]]]_vars

----------------------------------------------------------------------------
(* DataStandardizer._finalize_dataframe on its own *)

\* The DataFrames that reach step 8: a timestamp and a symbol in every
\* row, the opening prices 1, 2, ... in input order, and for some sources
\* the exchange the row was pulled from
FinalTimestamps == {0, 60}
FinalSymbols == { <<"B", "T", "C">>, <<"E", "T", "H">> }
Exchanges == { <<"b", "i", "n", "a", "n", "c", "e">>,
               <<"c", "o", "i", "n", "b", "a", "s", "e">> }

FinalFrame(n, times, symbols, exchanges, with_exchange) ==
    LET columns == {"timestamp", "symbol", "open"}
                       \cup (IF with_exchange THEN {"exchange"} ELSE {})
    IN  [columns |-> columns,
         rows |-> [i \in 1..n |->
                      [c \in columns |->
                          CASE c = "timestamp" -> Datetime(times[i])
                            [] c = "symbol" -> StrOf(symbols[i])
                            [] c = "exchange" -> StrOf(exchanges[i])
                            [] c = "open" -> Float(i)]]]

FinalFrames ==
    UNION { { FinalFrame(n, times, symbols, exchanges, with_exchange) :
                  times \in [1..n -> FinalTimestamps],
                  symbols \in [1..n -> FinalSymbols],
                  exchanges \in [1..n -> Exchanges],
                  with_exchange \in BOOLEAN } : n \in 0..MaxRows }

\* _finalize_dataframe(df, data_type) on a DataFrame that reached step 8
Finalize(data_type) ==
    /\ stPc = "ready"
    /\ \E df \in FinalFrames :
        /\ stIn' = df
        /\ stOut' = _finalize_dataframe(df, data_type, 1)
    /\ stType' = data_type
    /\ stPc' = "final"
    /\ UNCHANGED <<stOut2, rlVars, gwVars, vsVars, dvVars, ldVars>>

NextFD == \E data_type \in Tradable : Finalize(data_type)

SpecFD == StartST /\ [][NextFD]_vars

\* the natural key of a data type: the columns of the validator's
\* unique_constraints that the DataFrame has
NaturalKey(data_type, columns) ==
    { c \in Range(unique_constraints[data_type]) : c \in columns }

\* the rows of df that have the values of row r in the columns of key
SharingKey(df, r, key) ==
    { k \in DOMAIN df.rows : \A c \in key : df.rows[k][c] = r[c] }

\* C25: after finalization every natural key of the input is the key of
\* exactly one row, and that row is the last row of the input with the key
C25_DedupOnNaturalKey ==
    stPc = "final" =>
        LET key == NaturalKey(stType, stIn.columns) IN
        \A i \in DOMAIN stIn.rows :
            LET survivor == CHOOSE j \in SharingKey(stIn, stIn.rows[i], key) :
                            \A k \in SharingKey(stIn, stIn.rows[i], key) :
                                k <= j
            IN  \E m \in DOMAIN stOut.rows :
                    /\ SharingKey(stOut, stIn.rows[i], key) = {m}
                    /\ \A c \in stIn.columns :
                           stOut.rows[m][c] = stIn.rows[survivor][c]

----------------------------------------------------------------------------
(* validate_dataframe as a count of the results its checks can add        *)
(*                                                                         *)
(* Every check adds at most a fixed number of results per column of the    *)
(* schema, each with a fixed value of passed.  A run is followed check by  *)
(* check with the counters of its summary only; every number of results a  *)
(* check can add is explored, whatever the DataFrame that would cause it.  *)
(* The list of results is not kept here.                                   *)

\* the sizes of the built-in schemas: numeric_columns, range_checks,
\* positive_columns, consistency_checks
schema_sizes ==
    [stock |-> [numeric |-> 6, range |-> 6, positive |-> 5, consistency |-> 5],
     crypto |-> [numeric |-> 5, range |-> 5, positive |-> 5, consistency |-> 0],
     forex |-> [numeric |-> 4, range |-> 4, positive |-> 4, consistency |-> 0],
     economic |->
         [numeric |-> 1, range |-> 1, positive |-> 0, consistency |-> 0],
     weather |->
         [numeric |-> 4, range |-> 4, positive |-> 0, consistency |-> 0],
     sentiment |->
         [numeric |-> 2, range |-> 2, positive |-> 0, consistency |-> 0]]

\* the checks in the order validate_dataframe calls them
check_order ==
    <<"_validate_schema", "_validate_missing_values", "_validate_data_types",
      "_validate_ranges", "_validate_consistency", "_validate_timestamps",
      "_validate_anomalies", "_validate_uniqueness",
      "_validate_completeness">>

\* between none and n results with passed=False
UpToFailed(n) == { <<0, f>> : f \in 0..n }

\* between none and n results with passed=True
UpToPassed(n) == { <<p, 0>> : p \in 0..n }

\* faulty variant of anomalies_results: one result per column and side
anomalies_results_two_sided(s) == UpToPassed(2 * s.numeric)

\* _validate_anomalies: at most one result per numeric column, passed=True
anomalies_results(s) == UpToPassed(s.numeric)

\* <<passed, failed>>: how many results with passed=True and how many with
\* passed=False one call of the check can add for a schema of sizes s
check_results(check, s) ==
    CASE check = "_validate_schema" -> { <<1, 0>>, <<0, 1>> }
      [] check = "_validate_missing_values" ->
             { pf \in (0..s.numeric) \X (0..s.numeric) :
                 pf[1] + pf[2] <= s.numeric }
      [] check = "_validate_data_types" -> UpToFailed(s.numeric)
      [] check = "_validate_ranges" -> UpToFailed(2 * s.range + s.positive)
      [] check = "_validate_consistency" -> UpToFailed(s.consistency)
      [] check = "_validate_timestamps" -> (0..2) \X (0..1)
      [] check = "_validate_anomalies" -> anomalies_results(s)
      [] check = "_validate_uniqueness" -> UpToFailed(1)
      [] check = "_validate_completeness" -> UpToPassed(1)

\* add_result for p results with passed=True and f results with
\* passed=False, which are of level ERROR in every check
add_results(p, f) ==
    /\ total_checks' = total_checks + p + f
    /\ passed_checks' = passed_checks + p
    /\ failed_checks' = failed_checks + f
    /\ errors' = errors + f
    /\ UNCHANGED <<warnings, critical_issues, results>>

InitVC ==
    /\ dvPc = "called"
    /\ dvDf = NoDf
    /\ dvType = "none"
    /\ dvLevel = "none"
    /\ dvConfig = NoConfig
    /\ dvOut = NoDf

\* validate_dataframe on an empty df: one result with passed=False
count_empty(data_type) ==
    /\ dvPc = "called"
    /\ dvType' = data_type
    /\ add_results(0, 1)
    /\ dvPc' = "summary"
    /\ UNCHANGED <<verdict, dvDf, dvLevel, dvConfig, dvOut>>
    /\ UNCHANGED <<rlVars, gwVars, stVars, ldVars>>

\* validate_dataframe on a df with rows: the schema is looked up
count_begin(data_type) ==
    /\ dvPc = "called"
    /\ dvType' = data_type
    /\ dvPc' = check_order[1]
    /\ UNCHANGED <<vsVars, dvDf, dvLevel, dvConfig, dvOut>>
    /\ UNCHANGED <<rlVars, gwVars, stVars, ldVars>>

\* one of the nine checks runs and adds its results
count_check(k) ==
    /\ dvPc = check_order[k]
    /\ \E pf \in check_results(check_order[k], schema_sizes[dvType]) :
           add_results(pf[1], pf[2])
    /\ dvPc' = IF k < Len(check_order) THEN check_order[k + 1] ELSE "summary"
    /\ UNCHANGED <<verdict, dvDf, dvType, dvLevel, dvConfig, dvOut>>
    /\ UNCHANGED <<rlVars, gwVars, stVars, ldVars>>

\* summary.is_valid() on the summary of the run
count_is_valid ==
    /\ dvPc = "summary"
    /\ verdict' = [num |-> DefaultThresholdNum, den |-> DefaultThresholdDen,
                   valid |-> is_valid(DefaultThresholdNum,
                                      DefaultThresholdDen)]
    /\ dvPc' = "returned"
    /\ UNCHANGED <<total_checks, passed_checks, failed_checks, warnings,
                   errors, critical_issues, results>>
    /\ UNCHANGED <<dvDf, dvType, dvLevel, dvConfig, dvOut>>
    /\ UNCHANGED <<rlVars, gwVars, stVars, ldVars>>

NextVC ==
    \/ \E data_type \in DOMAIN schema_sizes : count_empty(data_type)
    \/ \E data_type \in DOMAIN schema_sizes : count_begin(data_type)
    \/ \E k \in DOMAIN check_order : count_check(k)
    \/ count_is_valid

StartVC == IdleRL /\ IdleGW /\ InitVS /\ InitVC /\ IdleST /\ IdleLD

SpecVC == StartVC /\ [][NextVC]_vars

\* C28: the summary of a validate_dataframe run on a built-in schema
\* satisfies is_valid() with the default threshold exactly when none of its
\* results failed
C28_ValidIffNoFailure ==
    dvPc = "returned" => (verdict.valid <=> failed_checks = 0)

\* a stock run with the sixteen passed results a run can have at most and
\* one failed result: the pass rate is 16/17 and the summary is not valid
C28_Witness ==
    /\ dvPc = "returned"
    /\ dvType = "stock"
    /\ passed_checks = 16
    /\ failed_checks = 1
    /\ ~verdict.valid


\* the row itself breaks the failed check c: its value is out of the range,
\* negative, or its timestamp is null
RowViolates(df, c, r) ==
    LET prefix == c.check_name[1]
        col == c.check_name[2]
    IN  CASE prefix = "range_min" ->
                 col \in df.columns /\ LtFrac(Cell(r, col), c.bound)
          [] prefix = "range_max" ->
                 col \in df.columns /\ GtProd(Cell(r, col), c.bound)
          [] prefix = "positive_values" ->
                 col \in df.columns /\ Lt(Cell(r, col), 0)
          [] prefix = "null_timestamps" -> isnull(r.timestamp)
          [] OTHER -> FALSE

\* the rows of the input that the returned DataFrame no longer has
RemovedRows == { r \in Range(dvDf.rows) : r \notin Range(dvOut.rows) }

\* C29: every row a validate_dataframe call removes itself violates a failed
\* ERROR or CRITICAL range, positivity or null-timestamp result of the call;
\* a row that is only null in a flagged column is not removed.
C29_FilteringPrecise ==
    dvPc = "returned" =>
        \A r \in RemovedRows :
            \E i \in DOMAIN results :
                /\ results[i].level \in {"ERROR", "CRITICAL"}
                /\ ~results[i].passed
                /\ RowViolates(dvDf, results[i], r)

====
